---- MODULE Spec2Model ----
(***************************************************************************)
(* Model of the access-rights tree of dbms/src/ACL/AllowedDatabases.cpp:   *)
(* a tree of nodes (root, database, table, column), each with an           *)
(* effective access mask and an explicitly granted mask, mutated by        *)
(* grant / revoke / merge and queried by getAccess / checkAccess.          *)
(***************************************************************************)
EXTENDS Naturals, Sequences, FiniteSets, TLC

(***************************************************************************)
(* Access types (bit masks in the code, sets of flags here).               *)
(***************************************************************************)
SELECT == "SELECT"
INSERT == "INSERT"
CREATE == "CREATE"

\* A bit of AccessType outside DATABASE_LEVEL: grantable at no level.
NOT_GRANTABLE == "NOT_GRANTABLE"

COLUMN_LEVEL == {SELECT}
TABLE_LEVEL == COLUMN_LEVEL \cup {INSERT}
DATABASE_LEVEL == TABLE_LEVEL \cup {CREATE}

(***************************************************************************)
(* Bounds of the model.                                                    *)
(***************************************************************************)
MaxOps == 3

\* The access masks the operations are called with.
AccessTypes == {{SELECT}, {INSERT}, {SELECT, INSERT}}

\* The access masks grant is called with: those, and masks with a bit that is
\* not grantable at tables (CREATE) or anywhere (NOT_GRANTABLE).
GrantAccessTypes == AccessTypes \cup {{CREATE}, {SELECT, NOT_GRANTABLE}}

\* The paths the mutating operations are called with.
OpPaths == {<<>>, <<"d1">>, <<"d2">>, <<"d1", "t1">>, <<"d1", "t2">>, <<"d1", "t1", "c1">>}

\* The paths the queries are asked about.
Databases == {"d1", "d2"}
Tables == {"t1", "t2"}
Columns == {"c1", "c2"}
AllPaths == {<<>>} \cup {<<d>> : d \in Databases}
            \cup {<<d, t>> : d \in Databases, t \in Tables}
            \cup {<<d, t, c>> : d \in Databases, t \in Tables, c \in Columns}

\* The tables and the lists of columns checkAccess is asked about.
CheckTables == {<<"d1", "t1">>, <<"d2", "t1">>}
ColumnLists == {<<>>, <<"c1">>, <<"c1", "c2">>}

\* The access masks and paths a role's tree is built with (the trees that get
\* merged in).
RoleAccessTypes == {{SELECT}, {INSERT}}
RolePaths == {<<>>, <<"d1">>, <<"d1", "t1">>}

(***************************************************************************)
(* Node: access, grants, children (a unique_ptr to a map: has_children     *)
(* says the pointer is set, children is the map, empty when it is not).    *)
(***************************************************************************)
NoChildren == [name \in {} |-> 0]

EmptyNode == [access |-> {}, grants |-> {}, has_children |-> FALSE, children |-> NoChildren]

\* Node::getParentAccess of a node without a parent (the root).
NoParentAccess == {}

\* Node::getPartialRevokes
GetPartialRevokes(node) == node.access \ node.grants

\* Node::find
Find(node, child_name) == node.has_children /\ child_name \in DOMAIN node.children

\* getIterator with the new child left without the parent's access.
GetIterator_NoInherit(node, child_name) ==
  IF Find(node, child_name) THEN node
  ELSE [node EXCEPT
          !.has_children = TRUE,
          !.children = [name \in DOMAIN node.children \cup {child_name} |->
                          IF name = child_name THEN EmptyNode ELSE node.children[name]]]

\* Node::getIterator: the child, created with the parent's access when missing.
GetIterator(node, child_name) ==
  IF Find(node, child_name) THEN node
  ELSE [node EXCEPT
          !.has_children = TRUE,
          !.children = [name \in DOMAIN node.children \cup {child_name} |->
                          IF name = child_name
                          THEN [EmptyNode EXCEPT !.access = node.access]
                          ELSE node.children[name]]]

\* The condition of eraseOrIncrement under which the child is erased.
Redundant(parent_access, child) ==
  ~child.has_children /\ child.grants = {} /\ parent_access = child.access

\* Node::eraseOrIncrement
EraseOrIncrement(node, child_name) ==
  IF Redundant(node.access, node.children[child_name])
  THEN [node EXCEPT !.children =
          [name \in DOMAIN node.children \ {child_name} |-> node.children[name]]]
  ELSE node

\* The loop over the children that ends Node::addAccess, removeAccess and
\* addAccessRecalcGrants: erase the redundant ones, reset the map when empty.
EraseChildrenAndReset(node, kids) ==
  LET keep == {name \in DOMAIN kids : ~Redundant(node.access, kids[name])}
  IN [node EXCEPT !.has_children = (keep # {}),
                  !.children = [name \in keep |-> kids[name]]]

RECURSIVE GetAccess(_, _)

\* getAccess answering "nothing" for a path without a node of its own.
GetAccess_NoFallback(node, path) ==
  IF path = <<>> THEN node.access
  ELSE IF Find(node, Head(path)) THEN GetAccess(node.children[Head(path)], Tail(path))
  ELSE {}

\* Node::getAccess(name1, name2, name3)
GetAccess(node, path) ==
  IF path = <<>> THEN node.access
  ELSE IF Find(node, Head(path)) THEN GetAccess(node.children[Head(path)], Tail(path))
  ELSE node.access

\* Node::getAccess(names): nothing for an empty list, else the access common
\* to the names.
GetAccessOfNames(node, names) ==
  IF names = <<>> THEN {}
  ELSE {a \in GetAccess(node, <<names[1]>>) :
          \A i \in DOMAIN names : a \in GetAccess(node, <<names[i]>>)}

\* Node::getAccess(name1, name2, names3) and the shorter forms that end in a
\* list of names.
RECURSIVE GetAccessOfList(_, _, _)
GetAccessOfList(node, path, names) ==
  IF path = <<>> THEN GetAccessOfNames(node, names)
  ELSE IF Find(node, Head(path))
       THEN GetAccessOfList(node.children[Head(path)], Tail(path), names)
       ELSE node.access

RECURSIVE AddAccess(_, _)

\* addAccess that forgets the node's own access and changes the children only.
AddAccess_ChildrenOnly(node, add_access) ==
  IF ~node.has_children THEN node
  ELSE EraseChildrenAndReset(node,
         [name \in DOMAIN node.children |-> AddAccess(node.children[name], add_access)])

\* addAccess that leaves the children's access as it is.
AddAccess_NoPropagation(node, add_access) ==
  LET n1 == [node EXCEPT !.access = @ \cup add_access]
  IN IF ~node.has_children THEN n1
     ELSE EraseChildrenAndReset(n1, node.children)

\* Node::addAccess
AddAccess(node, add_access) ==
  LET n1 == [node EXCEPT !.access = @ \cup add_access]
  IN IF ~node.has_children THEN n1
     ELSE EraseChildrenAndReset(n1,
            [name \in DOMAIN node.children |-> AddAccess(node.children[name], add_access)])

RECURSIVE RemoveAccess(_, _)

\* removeAccess without "remove_access &= ~grants": it takes away what the
\* node itself grants.
RemoveAccess_IgnoreGrants(node, remove_access) ==
  LET n1 == [node EXCEPT !.access = @ \ remove_access]
  IN IF remove_access = {} THEN node
     ELSE IF ~node.has_children THEN n1
     ELSE EraseChildrenAndReset(n1,
            [name \in DOMAIN node.children |->
               RemoveAccess(node.children[name], remove_access)])

\* removeAccess with "access &= remove_access" for "access &= ~remove_access".
RemoveAccess_KeepsRemoved(node, remove_access) ==
  LET remove == remove_access \ node.grants
      n1 == [node EXCEPT !.access = @ \cap remove]
  IN IF remove = {} THEN node
     ELSE IF ~node.has_children THEN n1
     ELSE EraseChildrenAndReset(n1,
            [name \in DOMAIN node.children |-> RemoveAccess(node.children[name], remove)])

\* Node::removeAccess
RemoveAccess(node, remove_access) ==
  LET remove == remove_access \ node.grants
      n1 == [node EXCEPT !.access = @ \ remove]
  IN IF remove = {} THEN node
     ELSE IF ~node.has_children THEN n1
     ELSE EraseChildrenAndReset(n1,
            [name \in DOMAIN node.children |-> RemoveAccess(node.children[name], remove)])

\* grant that masks the new grants with the access instead of the complement
\* of the partial revokes.
NodeGrantHere_WrongMask(node, access) ==
  LET add_access == access \ node.grants
      n1 == [node EXCEPT !.grants = @ \cup (add_access \cap node.access)]
  IN IF add_access = {} THEN [changed |-> FALSE, node |-> node]
     ELSE [changed |-> TRUE, node |-> AddAccess(n1, add_access)]

\* Node::grant(add_access)
NodeGrantHere(node, access) ==
  LET add_access == access \ node.grants
      n1 == [node EXCEPT !.grants = @ \cup (add_access \ GetPartialRevokes(node))]
  IN IF add_access = {} THEN [changed |-> FALSE, node |-> node]
     ELSE [changed |-> TRUE, node |-> AddAccess(n1, add_access)]

\* Node::grant(add_access, name1, name2, name3)
RECURSIVE NodeGrant(_, _, _)
NodeGrant(node, add_access, path) ==
  IF path = <<>> THEN NodeGrantHere(node, add_access)
  ELSE LET name == Head(path)
           n1 == GetIterator(node, name)
           r == NodeGrant(n1.children[name], add_access, Tail(path))
           n2 == [n1 EXCEPT !.children[name] = r.node]
       IN IF ~r.changed THEN [changed |-> FALSE, node |-> n2]
          ELSE [changed |-> TRUE, node |-> EraseOrIncrement(n2, name)]

\* revoke that forgets the new partial revokes when it removes the access.
NodeRevokeHere_NoPartial(node, parent_access, access, partial_revokes) ==
  LET remove_access == IF partial_revokes THEN access \cap node.access
                       ELSE access \cap node.grants
      n1 == [node EXCEPT !.grants = @ \ remove_access]
  IN IF remove_access = {} THEN [changed |-> FALSE, node |-> node]
     ELSE [changed |-> TRUE, node |-> RemoveAccess(n1, remove_access \ parent_access)]

\* Node::revoke(remove_access, partial_revokes)
NodeRevokeHere(node, parent_access, access, partial_revokes) ==
  LET remove_access == IF partial_revokes THEN access \cap node.access
                       ELSE access \cap node.grants
      new_partial_revokes == remove_access \ node.grants
      n1 == [node EXCEPT !.grants = @ \ remove_access]
  IN IF remove_access = {} THEN [changed |-> FALSE, node |-> node]
     ELSE [changed |-> TRUE,
           node |-> RemoveAccess(n1, (remove_access \ parent_access) \cup new_partial_revokes)]

\* Node::revoke(access, name1, name2, name3, partial_revokes)
RECURSIVE NodeRevoke(_, _, _, _, _)
NodeRevoke(node, parent_access, access, path, partial_revokes) ==
  IF path = <<>> THEN NodeRevokeHere(node, parent_access, access, partial_revokes)
  ELSE LET name == Head(path)
           n1 == GetIterator(node, name)
           r == NodeRevoke(n1.children[name], n1.access, access, Tail(path), partial_revokes)
           n2 == [n1 EXCEPT !.children[name] = r.node]
       IN IF ~r.changed THEN [changed |-> FALSE, node |-> n2]
          ELSE [changed |-> TRUE, node |-> EraseOrIncrement(n2, name)]

\* Node::merge without its first loop: no child of the other node is created.
EnsureChildren_None(node, names) == node

\* The first loop of Node::merge: get(name) for every child of the other node.
EnsureChildren(node, names) ==
  IF names = {} THEN node
  ELSE [node EXCEPT
          !.has_children = TRUE,
          !.children = [name \in DOMAIN node.children \cup names |->
                          IF name \in DOMAIN node.children THEN node.children[name]
                          ELSE [EmptyNode EXCEPT !.access = node.access]]]

\* The loop over the children that ends Node::merge: erase the redundant ones
\* (the map is kept even when it becomes empty).
EraseChildren(node, kids) ==
  LET keep == {name \in DOMAIN kids : ~Redundant(node.access, kids[name])}
  IN [node EXCEPT !.children = [name \in keep |-> kids[name]]]

RECURSIVE AddAccessRecalcGrants(_, _, _)

\* addAccessRecalcGrants that recalculates the grants and adds no access.
AddAccessRecalcGrants_NoAdd(node, parent_access, add_access) ==
  LET n1 == [node EXCEPT !.grants = node.access \ parent_access]
  IN IF ~node.has_children THEN n1
     ELSE EraseChildrenAndReset(n1,
            [name \in DOMAIN node.children |->
               AddAccessRecalcGrants(node.children[name], node.access, add_access)])

\* Node::addAccessRecalcGrants
AddAccessRecalcGrants(node, parent_access, add_access) ==
  LET new_access == node.access \cup add_access
      n1 == [node EXCEPT !.access = new_access, !.grants = new_access \ parent_access]
  IN IF ~node.has_children THEN n1
     ELSE EraseChildrenAndReset(n1,
            [name \in DOMAIN node.children |->
               AddAccessRecalcGrants(node.children[name], new_access, add_access)])

\* The merge of the masks with "access = other.access" for "access |= other.access".
MergeAccess_Assign(node, parent_access, other_access) ==
  [node EXCEPT !.access = other_access, !.grants = other_access \ parent_access]

\* Node::merge, the node's own masks:
\* access |= other.access; grants = access & ~getParentAccess().
MergeAccess(node, parent_access, other_access) ==
  [node EXCEPT !.access = node.access \cup other_access,
               !.grants = (node.access \cup other_access) \ parent_access]

\* Node::merge
RECURSIVE NodeMerge(_, _, _)
NodeMerge(node, parent_access, other) ==
  LET n0 == EnsureChildren(node, IF other.has_children THEN DOMAIN other.children ELSE {})
      n1 == MergeAccess(n0, parent_access, other.access)
  IN IF ~n1.has_children THEN n1
     ELSE EraseChildren(n1,
            [name \in DOMAIN n1.children |->
               IF Find(other, name)
               THEN NodeMerge(n1.children[name], n1.access, other.children[name])
               ELSE AddAccessRecalcGrants(n1.children[name], n1.access, other.access)])

\* The names of a children map in the order the map is iterated in.
RECURSIVE NamesInOrder(_)
NamesInOrder(names) ==
  IF names = {} THEN <<>>
  ELSE LET first == CHOOSE n \in names : TRUE
       IN <<first>> \o NamesInOrder(names \ {first})

\* The Info of one node: Info{grants, partial_revokes, database, table, column}.
InfoOf(node, path) ==
  [grants |-> node.grants, partial_revokes |-> GetPartialRevokes(node), path |-> path]

\* The loops of getInfo over the children of a node: a child's Info when it
\* has grants or partial revokes, then the Infos of the child's children.
RECURSIVE InfosOfChildren(_, _, _)
InfosOfChildren(node, path, names) ==
  IF names = <<>> THEN <<>>
  ELSE LET child == node.children[Head(names)]
           child_path == Append(path, Head(names))
       IN (IF child.grants # {} \/ GetPartialRevokes(child) # {}
           THEN <<InfoOf(child, child_path)>> ELSE <<>>)
          \o (IF child.has_children /\ Len(child_path) < 3
              THEN InfosOfChildren(child, child_path, NamesInOrder(DOMAIN child.children))
              ELSE <<>>)
          \o InfosOfChildren(node, path, Tail(names))

\* AllowedDatabases::getInfo
GetInfo(tree) ==
  (IF tree.grants # {}
   THEN <<[grants |-> tree.grants, partial_revokes |-> {}, path |-> <<>>]>> ELSE <<>>)
  \o (IF tree.has_children
      THEN InfosOfChildren(tree, <<>>, NamesInOrder(DOMAIN tree.children))
      ELSE <<>>)

\* priv.database, priv.table, priv.column of an Info: empty when the path is
\* shorter.
InfoDatabase(priv) == IF Len(priv.path) >= 1 THEN priv.path[1] ELSE ""
InfoTable(priv) == IF Len(priv.path) >= 2 THEN priv.path[2] ELSE ""
InfoColumn(priv) == IF Len(priv.path) >= 3 THEN priv.path[3] ELSE ""

\* The current database of the context SHOW GRANTS runs in.
CurrentDatabases == {"d1", "default"}

\* The ASTGrantQuery made for a privilege entry. The field "from" is not in the
\* code: it keeps the (database, table) of the entries accumulated into it.
NewGrantQuery(priv, kind, current_database) ==
  [kind |-> kind,
   use_current_database |-> (InfoDatabase(priv) = current_database),
   database |-> IF InfoDatabase(priv) = current_database THEN "" ELSE InfoDatabase(priv),
   table |-> InfoTable(priv),
   access |-> {},
   columns_access |-> [c \in {} |-> {}],
   from |-> {}]

\* The key the entry is found or emplaced at: map.find({priv.database,
\* priv.table}), else try_emplace({new_grant_query->database,
\* new_grant_query->table}, ...), which returns the element already there.
QueryKey(map, priv, kind, current_database) ==
  IF <<InfoDatabase(priv), InfoTable(priv)>> \in DOMAIN map
  THEN <<InfoDatabase(priv), InfoTable(priv)>>
  ELSE <<NewGrantQuery(priv, kind, current_database).database, InfoTable(priv)>>

\* grant_query.access |= access, or grant_query.columns_access[column] |= access
Accumulate(grant_query, priv, access) ==
  LET q == [grant_query EXCEPT !.from = @ \cup {<<InfoDatabase(priv), InfoTable(priv)>>}]
  IN IF InfoColumn(priv) = "" THEN [q EXCEPT !.access = @ \cup access]
     ELSE [q EXCEPT !.columns_access =
             [c \in DOMAIN @ \cup {InfoColumn(priv)} |->
                IF c = InfoColumn(priv)
                THEN (IF c \in DOMAIN @ THEN @[c] ELSE {}) \cup access
                ELSE @[c]]]

\* The body of the loop over the kinds for one map: nothing for an empty
\* access, else the entry is accumulated into the query at its key.
AddToQueries(map, priv, kind, access, current_database) ==
  IF access = {} THEN map
  ELSE LET key == QueryKey(map, priv, kind, current_database)
           old == IF key \in DOMAIN map THEN map[key]
                  ELSE NewGrantQuery(priv, kind, current_database)
       IN [k \in DOMAIN map \cup {key} |->
             IF k = key THEN Accumulate(old, priv, access) ELSE map[k]]

\* The loop over role->privileges[grant_option].getInfo(): the maps "grants"
\* and "partial_revokes" after it.
RECURSIVE AccumulateInfos(_, _, _)
AccumulateInfos(maps, infos, current_database) ==
  IF infos = <<>> THEN maps
  ELSE AccumulateInfos(
         [grants |-> AddToQueries(maps.grants, Head(infos), "GRANT",
                                  Head(infos).grants, current_database),
          partial_revokes |-> AddToQueries(maps.partial_revokes, Head(infos), "REVOKE",
                                           Head(infos).partial_revokes, current_database)],
         Tail(infos), current_database)

NoQueries == [k \in {} |-> 0]

\* InterpreterShowGrantsQuery::enumerateGrantQueries, the privileges of one
\* grant_option: the queries of the map "grants" and of "partial_revokes".
EnumerateGrantQueries(infos, current_database) ==
  LET maps == AccumulateInfos([grants |-> NoQueries, partial_revokes |-> NoQueries],
                              infos, current_database)
  IN {maps.grants[k] : k \in DOMAIN maps.grants}
     \cup {maps.partial_revokes[k] : k \in DOMAIN maps.partial_revokes}

\* The level check with DATABASE_LEVEL for every target.
GrantableAt_AnyLevel(path) == DATABASE_LEVEL

\* The level check of AllowedDatabases::grant: the mask grantable at the path.
GrantableAt(path) ==
  IF Len(path) <= 1 THEN DATABASE_LEVEL
  ELSE IF Len(path) = 2 THEN TABLE_LEVEL
  ELSE COLUMN_LEVEL

\* What one grant or partial revoke that changes something makes of a role's tree.
RoleCalls(tree) ==
  LET grants == {NodeGrant(tree, call[2], call[1]) :
                   call \in {c \in RolePaths \X RoleAccessTypes : c[2] \subseteq GrantableAt(c[1])}}
      revokes == {NodeRevoke(tree, NoParentAccess, call[2], call[1], TRUE) :
                    call \in RolePaths \X RoleAccessTypes}
  IN {r.node : r \in {x \in grants \cup revokes : x.changed}}

\* The role trees that get merged in: those reachable from the empty tree by
\* at most two such calls.
RoleTrees ==
  LET one == RoleCalls(EmptyNode)
  IN {EmptyNode} \cup one \cup UNION {RoleCalls(tree) : tree \in one}

(***************************************************************************)
(* Access/AccessFlags.h: the registry of access types. AccessFlags::Impl   *)
(* is a singleton built on first use from a static table of keywords: a    *)
(* tree of nodes, a leaf per access type with a bit of its own, a group    *)
(* per keyword that stands for several.                                    *)
(***************************************************************************)
NUM_FLAGS == 64

\* enum Level. DATABASE_LEVEL, TABLE_LEVEL and COLUMN_LEVEL of this enum are
\* written Level_DATABASE, Level_TABLE and Level_COLUMN: the names are taken
\* by the masks of AllowedDatabases.
GLOBAL_LEVEL == 0
Level_DATABASE == 1
Level_TABLE == 2
VIEW_LEVEL == 2
DICTIONARY_LEVEL == 2
Level_COLUMN == 3

\* The statements of makeFlagsToKeywordTree, in order: "leaf" constructs
\* Node(keyword, next_flag++, level) in the local var, "group" constructs
\* Node(keyword, std::move(children)...), "push" is push_back(all, ...),
\* "root" is the construction of the tree from all. The aliases are those
\* pushed to the node before it is moved away.
Statements ==
  <<
     [line |-> 251, kind |-> "leaf", var |-> "show", keyword |-> "SHOW", level |-> Level_COLUMN,
      children |-> <<>>, aliases |-> <<>>],
     [line |-> 252, kind |-> "push", var |-> "all", keyword |-> "", level |-> GLOBAL_LEVEL,
      children |-> <<"show">>, aliases |-> <<>>],
     [line |-> 254, kind |-> "leaf", var |-> "select", keyword |-> "SELECT", level |-> Level_COLUMN,
      children |-> <<>>, aliases |-> <<>>],
     [line |-> 255, kind |-> "leaf", var |-> "insert", keyword |-> "INSERT", level |-> Level_COLUMN,
      children |-> <<>>, aliases |-> <<>>],
     [line |-> 256, kind |-> "push", var |-> "all", keyword |-> "", level |-> GLOBAL_LEVEL,
      children |-> <<"select", "insert">>, aliases |-> <<>>],
     [line |-> 258, kind |-> "leaf", var |-> "update", keyword |-> "UPDATE", level |-> Level_COLUMN,
      children |-> <<>>, aliases |-> <<"ALTER UPDATE">>],
     [line |-> 260, kind |-> "leaf", var |-> "delet", keyword |-> "DELETE", level |-> Level_TABLE,
      children |-> <<>>, aliases |-> <<"ALTER DELETE">>],
     [line |-> 263, kind |-> "leaf", var |-> "add_column", keyword |-> "ADD COLUMN", level |-> Level_COLUMN,
      children |-> <<>>, aliases |-> <<"ALTER ADD COLUMN">>],
     [line |-> 265, kind |-> "leaf", var |-> "modify_column", keyword |-> "MODIFY COLUMN", level |-> Level_COLUMN,
      children |-> <<>>, aliases |-> <<"ALTER MODIFY COLUMN">>],
     [line |-> 267, kind |-> "leaf", var |-> "drop_column", keyword |-> "DROP COLUMN", level |-> Level_COLUMN,
      children |-> <<>>, aliases |-> <<"ALTER DROP COLUMN">>],
     [line |-> 269, kind |-> "leaf", var |-> "comment_column", keyword |-> "COMMENT COLUMN", level |-> Level_COLUMN,
      children |-> <<>>, aliases |-> <<"ALTER COMMENT COLUMN">>],
     [line |-> 271, kind |-> "leaf", var |-> "clear_column", keyword |-> "CLEAR COLUMN", level |-> Level_COLUMN,
      children |-> <<>>, aliases |-> <<"ALTER CLEAR COLUMN">>],
     [line |-> 273, kind |-> "group", var |-> "alter_column", keyword |-> "ALTER COLUMN", level |-> GLOBAL_LEVEL,
      children |-> <<"add_column", "modify_column", "drop_column", "comment_column", "clear_column">>, aliases |-> <<>>],
     [line |-> 275, kind |-> "leaf", var |-> "alter_order_by", keyword |-> "ALTER ORDER BY", level |-> Level_TABLE,
      children |-> <<>>, aliases |-> <<"MODIFY ORDER BY", "ALTER MODIFY ORDER BY">>],
     [line |-> 278, kind |-> "leaf", var |-> "add_index", keyword |-> "ADD INDEX", level |-> Level_TABLE,
      children |-> <<>>, aliases |-> <<"ALTER ADD INDEX">>],
     [line |-> 280, kind |-> "leaf", var |-> "drop_index", keyword |-> "DROP INDEX", level |-> Level_TABLE,
      children |-> <<>>, aliases |-> <<"ALTER DROP INDEX">>],
     [line |-> 282, kind |-> "leaf", var |-> "materialize_index", keyword |-> "MATERIALIZE INDEX", level |-> Level_TABLE,
      children |-> <<>>, aliases |-> <<"ALTER MATERIALIZE INDEX">>],
     [line |-> 284, kind |-> "leaf", var |-> "clear_index", keyword |-> "CLEAR INDEX", level |-> Level_TABLE,
      children |-> <<>>, aliases |-> <<"ALTER CLEAR INDEX">>],
     [line |-> 286, kind |-> "group", var |-> "index", keyword |-> "INDEX", level |-> GLOBAL_LEVEL,
      children |-> <<"alter_order_by", "add_index", "drop_index", "materialize_index", "clear_index">>, aliases |-> <<"ALTER INDEX">>],
     [line |-> 289, kind |-> "leaf", var |-> "add_constraint", keyword |-> "ADD CONSTRAINT", level |-> Level_TABLE,
      children |-> <<>>, aliases |-> <<"ALTER ADD CONSTRAINT">>],
     [line |-> 291, kind |-> "leaf", var |-> "drop_constraint", keyword |-> "DROP CONSTRAINT", level |-> Level_TABLE,
      children |-> <<>>, aliases |-> <<"ALTER DROP CONSTRAINT">>],
     [line |-> 293, kind |-> "group", var |-> "alter_constraint", keyword |-> "CONSTRAINT", level |-> GLOBAL_LEVEL,
      children |-> <<"add_constraint", "drop_constraint">>, aliases |-> <<"ALTER CONSTRAINT">>],
     [line |-> 296, kind |-> "leaf", var |-> "modify_ttl", keyword |-> "MODIFY TTL", level |-> Level_TABLE,
      children |-> <<>>, aliases |-> <<"ALTER MODIFY TTL">>],
     [line |-> 299, kind |-> "leaf", var |-> "modify_setting", keyword |-> "MODIFY SETTING", level |-> Level_TABLE,
      children |-> <<>>, aliases |-> <<"ALTER MODIFY SETTING">>],
     [line |-> 302, kind |-> "leaf", var |-> "attach_partition", keyword |-> "ATTACH PARTITION", level |-> Level_TABLE,
      children |-> <<>>, aliases |-> <<"ALTER ATTACH PARTITION", "ATTACH PART", "ALTER ATTACH PART">>],
     [line |-> 306, kind |-> "leaf", var |-> "detach_partition", keyword |-> "DETACH PARTITION", level |-> Level_TABLE,
      children |-> <<>>, aliases |-> <<"ALTER DETACH PARTITION">>],
     [line |-> 308, kind |-> "leaf", var |-> "drop_partition", keyword |-> "DROP PARTITION", level |-> Level_TABLE,
      children |-> <<>>, aliases |-> <<"ALTER DROP PARTITION", "DROP DETACHED PARTITION", "ALTER DROP DETACHED PARTITION", "DROP DETACHED PART", "ALTER DROP DETACHED PART">>],
     [line |-> 314, kind |-> "leaf", var |-> "copy_partition", keyword |-> "COPY PARTITION", level |-> Level_TABLE,
      children |-> <<>>, aliases |-> <<>>],
     [line |-> 315, kind |-> "leaf", var |-> "move_partition", keyword |-> "MOVE PARTITION TO DISK", level |-> Level_TABLE,
      children |-> <<>>, aliases |-> <<"ALTER MOVE PARTITION TO DISK", "MOVE PART TO DISK", "ALTER MOVE PART TO DISK", "MOVE PARTITION TO VOLUME", "ALTER MOVE PARTITION TO VOLUME", "MOVE PART TO VOLUME", "ALTER MOVE PART TO VOLUME">>],
     [line |-> 323, kind |-> "leaf", var |-> "fetch_partition", keyword |-> "FETCH PARTITION", level |-> Level_TABLE,
      children |-> <<>>, aliases |-> <<"ALTER FETCH PARTITION">>],
     [line |-> 325, kind |-> "leaf", var |-> "freeze_partition", keyword |-> "FREEZE PARTITION", level |-> Level_TABLE,
      children |-> <<>>, aliases |-> <<"ALTER FREEZE PARTITION">>],
     [line |-> 327, kind |-> "group", var |-> "partition", keyword |-> "PARTITION", level |-> GLOBAL_LEVEL,
      children |-> <<"attach_partition", "detach_partition", "drop_partition", "copy_partition", "move_partition", "fetch_partition", "freeze_partition">>, aliases |-> <<"ALTER PARTITION">>],
     [line |-> 330, kind |-> "group", var |-> "alter_table", keyword |-> "ALTER_TABLE", level |-> GLOBAL_LEVEL,
      children |-> <<"update", "delet", "alter_column", "index", "alter_constraint", "modify_ttl", "modify_setting", "partition">>, aliases |-> <<>>],
     [line |-> 332, kind |-> "leaf", var |-> "refresh_live_view", keyword |-> "REFRESH LIVE VIEW", level |-> Level_TABLE,
      children |-> <<>>, aliases |-> <<"ALTER LIVE VIEW REFRESH">>],
     [line |-> 334, kind |-> "group", var |-> "alter_view", keyword |-> "ALTER VIEW", level |-> GLOBAL_LEVEL,
      children |-> <<"refresh_live_view">>, aliases |-> <<>>],
     [line |-> 336, kind |-> "group", var |-> "alter", keyword |-> "ALTER", level |-> GLOBAL_LEVEL,
      children |-> <<"alter_table", "alter_view">>, aliases |-> <<>>],
     [line |-> 337, kind |-> "push", var |-> "all", keyword |-> "", level |-> GLOBAL_LEVEL,
      children |-> <<"alter">>, aliases |-> <<>>],
     [line |-> 339, kind |-> "leaf", var |-> "create_database", keyword |-> "CREATE DATABASE", level |-> Level_DATABASE,
      children |-> <<>>, aliases |-> <<"ATTACH DATABASE">>],
     [line |-> 341, kind |-> "leaf", var |-> "create_table", keyword |-> "CREATE TABLE", level |-> Level_TABLE,
      children |-> <<>>, aliases |-> <<"ATTACH TABLE">>],
     [line |-> 343, kind |-> "leaf", var |-> "create_view", keyword |-> "CREATE VIEW", level |-> VIEW_LEVEL,
      children |-> <<>>, aliases |-> <<"ATTACH VIEW">>],
     [line |-> 345, kind |-> "leaf", var |-> "create_dictionary", keyword |-> "CREATE DICTIONARY", level |-> DICTIONARY_LEVEL,
      children |-> <<>>, aliases |-> <<"ATTACH DICTIONARY">>],
     [line |-> 347, kind |-> "leaf", var |-> "create_temporary_tables", keyword |-> "CREATE TEMPORARY TABLES", level |-> GLOBAL_LEVEL,
      children |-> <<>>, aliases |-> <<>>],
     [line |-> 348, kind |-> "group", var |-> "create", keyword |-> "CREATE", level |-> GLOBAL_LEVEL,
      children |-> <<"create_database", "create_table", "create_view", "create_dictionary", "create_temporary_tables">>, aliases |-> <<"ATTACH">>],
     [line |-> 350, kind |-> "push", var |-> "all", keyword |-> "", level |-> GLOBAL_LEVEL,
      children |-> <<"create">>, aliases |-> <<>>],
     [line |-> 352, kind |-> "leaf", var |-> "drop_database", keyword |-> "DROP DATABASE", level |-> Level_DATABASE,
      children |-> <<>>, aliases |-> <<>>],
     [line |-> 353, kind |-> "leaf", var |-> "drop_table", keyword |-> "DROP TABLE", level |-> Level_TABLE,
      children |-> <<>>, aliases |-> <<>>],
     [line |-> 354, kind |-> "leaf", var |-> "drop_view", keyword |-> "DROP VIEW", level |-> VIEW_LEVEL,
      children |-> <<>>, aliases |-> <<>>],
     [line |-> 355, kind |-> "leaf", var |-> "drop_dictionary", keyword |-> "DROP DICTIONARY", level |-> DICTIONARY_LEVEL,
      children |-> <<>>, aliases |-> <<>>],
     [line |-> 356, kind |-> "group", var |-> "drop", keyword |-> "DROP", level |-> GLOBAL_LEVEL,
      children |-> <<"drop_database", "drop_table", "drop_view", "drop_dictionary">>, aliases |-> <<>>],
     [line |-> 357, kind |-> "push", var |-> "all", keyword |-> "", level |-> GLOBAL_LEVEL,
      children |-> <<"drop">>, aliases |-> <<>>],
     [line |-> 359, kind |-> "leaf", var |-> "detach_database", keyword |-> "DETACH DATABASE", level |-> Level_DATABASE,
      children |-> <<>>, aliases |-> <<>>],
     [line |-> 360, kind |-> "leaf", var |-> "detach_table", keyword |-> "DETACH TABLE", level |-> Level_TABLE,
      children |-> <<>>, aliases |-> <<>>],
     [line |-> 361, kind |-> "leaf", var |-> "detach_view", keyword |-> "DETACH VIEW", level |-> VIEW_LEVEL,
      children |-> <<>>, aliases |-> <<>>],
     [line |-> 362, kind |-> "leaf", var |-> "detach_dictionary", keyword |-> "DETACH DICTIONARY", level |-> DICTIONARY_LEVEL,
      children |-> <<>>, aliases |-> <<>>],
     [line |-> 363, kind |-> "group", var |-> "detach", keyword |-> "DETACH", level |-> GLOBAL_LEVEL,
      children |-> <<"detach_database", "detach_table", "detach_view", "detach_dictionary">>, aliases |-> <<>>],
     [line |-> 364, kind |-> "push", var |-> "all", keyword |-> "", level |-> GLOBAL_LEVEL,
      children |-> <<"detach">>, aliases |-> <<>>],
     [line |-> 366, kind |-> "leaf", var |-> "truncate_table", keyword |-> "TRUNCATE TABLE", level |-> Level_TABLE,
      children |-> <<>>, aliases |-> <<>>],
     [line |-> 367, kind |-> "leaf", var |-> "truncate_view", keyword |-> "TRUNCATE VIEW", level |-> VIEW_LEVEL,
      children |-> <<>>, aliases |-> <<>>],
     [line |-> 368, kind |-> "group", var |-> "truncate", keyword |-> "TRUNCATE", level |-> GLOBAL_LEVEL,
      children |-> <<"detach_database", "detach_table", "detach_view", "detach_dictionary">>, aliases |-> <<>>],
     [line |-> 369, kind |-> "push", var |-> "all", keyword |-> "", level |-> GLOBAL_LEVEL,
      children |-> <<"truncate">>, aliases |-> <<>>],
     [line |-> 371, kind |-> "leaf", var |-> "optimize", keyword |-> "OPTIMIZE", level |-> Level_TABLE,
      children |-> <<>>, aliases |-> <<"OPTIMIZE TABLE">>],
     [line |-> 373, kind |-> "push", var |-> "all", keyword |-> "", level |-> GLOBAL_LEVEL,
      children |-> <<"optimize">>, aliases |-> <<>>],
     [line |-> 375, kind |-> "leaf", var |-> "kill_query", keyword |-> "KILL QUERY", level |-> GLOBAL_LEVEL,
      children |-> <<>>, aliases |-> <<>>],
     [line |-> 376, kind |-> "leaf", var |-> "kill_mutation", keyword |-> "KILL MUTATION", level |-> Level_TABLE,
      children |-> <<>>, aliases |-> <<>>],
     [line |-> 377, kind |-> "group", var |-> "kill", keyword |-> "KILL", level |-> GLOBAL_LEVEL,
      children |-> <<"kill_query", "kill_mutation">>, aliases |-> <<>>],
     [line |-> 378, kind |-> "push", var |-> "all", keyword |-> "", level |-> GLOBAL_LEVEL,
      children |-> <<"kill">>, aliases |-> <<>>],
     [line |-> 380, kind |-> "leaf", var |-> "create_user", keyword |-> "CREATE USER", level |-> GLOBAL_LEVEL,
      children |-> <<>>, aliases |-> <<"ALTER USER", "DROP_USER", "CREATE_ROLE", "DROP_ROLE", "CREATE_POLICY", "ALTER_POLICY", "DROP_POLICY", "CREATE_QUOTA", "ALTER_QUOTA", "DROP_QUOTA">>],
     [line |-> 391, kind |-> "push", var |-> "all", keyword |-> "", level |-> GLOBAL_LEVEL,
      children |-> <<"create_user">>, aliases |-> <<>>],
     [line |-> 393, kind |-> "leaf", var |-> "shutdown", keyword |-> "SHUTDOWN", level |-> GLOBAL_LEVEL,
      children |-> <<>>, aliases |-> <<"SYSTEM SHUTDOWN", "SYSTEM KILL">>],
     [line |-> 396, kind |-> "leaf", var |-> "drop_cache", keyword |-> "DROP CACHE", level |-> GLOBAL_LEVEL,
      children |-> <<>>, aliases |-> <<"SYSTEM DROP CACHE", "DROP DNS CACHE", "SYSTEM DROP DNS CACHE", "DROP MARK CACHE", "SYSTEM DROP MARK CACHE", "DROP UNCOMPRESSED CACHE", "SYSTEM DROP UNCOMPRESSED CACHE", "DROP COMPILED EXPRESSION CACHE", "SYSTEM DROP COMPILED EXPRESSION CACHE">>],
     [line |-> 406, kind |-> "leaf", var |-> "reload_config", keyword |-> "RELOAD CONFIG", level |-> GLOBAL_LEVEL,
      children |-> <<>>, aliases |-> <<"SYSTEM RELOAD CONFIG">>],
     [line |-> 408, kind |-> "leaf", var |-> "reload_dictionary", keyword |-> "RELOAD DICTIONARY", level |-> GLOBAL_LEVEL,
      children |-> <<>>, aliases |-> <<"SYSTEM RELOAD DICTIONARY", "RELOAD DICTIONARIES", "SYSTEM RELOAD DICTIONARIES", "RELOAD EMBEDDED DICTIONARIES", "SYSTEM RELOAD EMBEDDED DICTIONARIES">>],
     [line |-> 414, kind |-> "leaf", var |-> "stop_merges", keyword |-> "STOP_MERGES", level |-> Level_TABLE,
      children |-> <<>>, aliases |-> <<"SYSTEM STOP MERGES", "START MERGES", "SYSTEM START MERGES">>],
     [line |-> 418, kind |-> "leaf", var |-> "stop_ttl_merges", keyword |-> "STOP TTL MERGES", level |-> Level_TABLE,
      children |-> <<>>, aliases |-> <<"SYSTEM STOP TTL MERGES", "START TTL MERGES", "SYSTEM START TTL MERGES">>],
     [line |-> 422, kind |-> "leaf", var |-> "stop_fetches", keyword |-> "STOP FETCHES", level |-> Level_TABLE,
      children |-> <<>>, aliases |-> <<"SYSTEM STOP FETCHES", "START FETCHES", "SYSTEM START FETCHES">>],
     [line |-> 426, kind |-> "leaf", var |-> "stop_moves", keyword |-> "STOP MOVES", level |-> Level_TABLE,
      children |-> <<>>, aliases |-> <<"SYSTEM STOP MOVES", "START MOVES", "SYSTEM START MOVES">>],
     [line |-> 430, kind |-> "leaf", var |-> "stop_distributed_sends", keyword |-> "STOP DISTRIBUTED SENDS", level |-> Level_TABLE,
      children |-> <<>>, aliases |-> <<"SYSTEM STOP DISTRIBUTED SENDS", "START DISTRIBUTED SENDS", "SYSTEM START DISTRIBUTED SENDS">>],
     [line |-> 434, kind |-> "leaf", var |-> "stop_replicated_sends", keyword |-> "STOP REPLICATED SENDS", level |-> Level_TABLE,
      children |-> <<>>, aliases |-> <<"SYSTEM STOP REPLICATED SENDS", "START REPLICATED SENDS", "SYSTEM START REPLICATED SENDS">>],
     [line |-> 438, kind |-> "leaf", var |-> "stop_replication_queues", keyword |-> "STOP REPLICATION QUEUES", level |-> Level_TABLE,
      children |-> <<>>, aliases |-> <<"SYSTEM STOP REPLICATION QUEUES", "START REPLICATION QUEUES", "SYSTEM START REPLICATION QUEUES">>],
     [line |-> 442, kind |-> "leaf", var |-> "sync_replica", keyword |-> "SYNC REPLICA", level |-> Level_TABLE,
      children |-> <<>>, aliases |-> <<"SYSTEM SYNC REPLICA">>],
     [line |-> 444, kind |-> "leaf", var |-> "restart_replica", keyword |-> "RESTART REPLICA", level |-> Level_TABLE,
      children |-> <<>>, aliases |-> <<"SYSTEM RESTART REPLICA">>],
     [line |-> 446, kind |-> "leaf", var |-> "flush_distributed", keyword |-> "FLUSH DISTRIBUTED", level |-> Level_TABLE,
      children |-> <<>>, aliases |-> <<"SYSTEM FLUSH DISTRIBUTED">>],
     [line |-> 448, kind |-> "leaf", var |-> "flush_logs", keyword |-> "FLUSH LOGS", level |-> GLOBAL_LEVEL,
      children |-> <<>>, aliases |-> <<"SYSTEM FLUSH LOGS">>],
     [line |-> 450, kind |-> "group", var |-> "system", keyword |-> "SYSTEM", level |-> GLOBAL_LEVEL,
      children |-> <<"shutdown", "drop_cache", "reload_config", "reload_dictionary", "stop_merges", "stop_ttl_merges", "stop_fetches", "stop_moves", "stop_distributed_sends", "stop_replicated_sends", "stop_replication_queues", "sync_replica", "restart_replica", "flush_distributed", "flush_logs">>, aliases |-> <<>>],
     [line |-> 451, kind |-> "push", var |-> "all", keyword |-> "", level |-> GLOBAL_LEVEL,
      children |-> <<"system">>, aliases |-> <<>>],
     [line |-> 453, kind |-> "leaf", var |-> "dict_get", keyword |-> "dictGet()", level |-> DICTIONARY_LEVEL,
      children |-> <<>>, aliases |-> <<"dictHas()", "dictGetHierarchy()", "dictIsIn()">>],
     [line |-> 457, kind |-> "push", var |-> "all", keyword |-> "", level |-> GLOBAL_LEVEL,
      children |-> <<"dict_get">>, aliases |-> <<>>],
     [line |-> 459, kind |-> "leaf", var |-> "address_to_line", keyword |-> "addressToLine()", level |-> GLOBAL_LEVEL,
      children |-> <<>>, aliases |-> <<>>],
     [line |-> 460, kind |-> "leaf", var |-> "address_to_symbol", keyword |-> "addressToSymbol()", level |-> GLOBAL_LEVEL,
      children |-> <<>>, aliases |-> <<>>],
     [line |-> 461, kind |-> "leaf", var |-> "demangle", keyword |-> "demangle()", level |-> GLOBAL_LEVEL,
      children |-> <<>>, aliases |-> <<>>],
     [line |-> 462, kind |-> "group", var |-> "introspection_functions", keyword |-> "INTROSPECTION FUNCTIONS", level |-> GLOBAL_LEVEL,
      children |-> <<"address_to_line", "address_to_symbol", "demangle">>, aliases |-> <<>>],
     [line |-> 463, kind |-> "group", var |-> "introspection", keyword |-> "INTROSPECTION", level |-> GLOBAL_LEVEL,
      children |-> <<"introspection_functions">>, aliases |-> <<>>],
     [line |-> 464, kind |-> "push", var |-> "all", keyword |-> "", level |-> GLOBAL_LEVEL,
      children |-> <<"introspection">>, aliases |-> <<>>],
     [line |-> 466, kind |-> "leaf", var |-> "file", keyword |-> "file()", level |-> GLOBAL_LEVEL,
      children |-> <<>>, aliases |-> <<>>],
     [line |-> 467, kind |-> "leaf", var |-> "url", keyword |-> "url()", level |-> GLOBAL_LEVEL,
      children |-> <<>>, aliases |-> <<>>],
     [line |-> 468, kind |-> "leaf", var |-> "input", keyword |-> "input()", level |-> GLOBAL_LEVEL,
      children |-> <<>>, aliases |-> <<>>],
     [line |-> 469, kind |-> "leaf", var |-> "values", keyword |-> "values()", level |-> GLOBAL_LEVEL,
      children |-> <<>>, aliases |-> <<>>],
     [line |-> 470, kind |-> "leaf", var |-> "numbers", keyword |-> "numbers()", level |-> GLOBAL_LEVEL,
      children |-> <<>>, aliases |-> <<>>],
     [line |-> 471, kind |-> "leaf", var |-> "merge", keyword |-> "merge()", level |-> Level_DATABASE,
      children |-> <<>>, aliases |-> <<>>],
     [line |-> 472, kind |-> "leaf", var |-> "remote", keyword |-> "remote()", level |-> GLOBAL_LEVEL,
      children |-> <<>>, aliases |-> <<"remoteSecure", "cluster()">>],
     [line |-> 475, kind |-> "leaf", var |-> "mysql", keyword |-> "mysql()", level |-> GLOBAL_LEVEL,
      children |-> <<>>, aliases |-> <<>>],
     [line |-> 476, kind |-> "leaf", var |-> "odbc", keyword |-> "odbc()", level |-> GLOBAL_LEVEL,
      children |-> <<>>, aliases |-> <<>>],
     [line |-> 477, kind |-> "leaf", var |-> "jdbc", keyword |-> "jdbc()", level |-> GLOBAL_LEVEL,
      children |-> <<>>, aliases |-> <<>>],
     [line |-> 478, kind |-> "leaf", var |-> "hdfs", keyword |-> "hdfs()", level |-> GLOBAL_LEVEL,
      children |-> <<>>, aliases |-> <<>>],
     [line |-> 479, kind |-> "leaf", var |-> "s3", keyword |-> "s3()", level |-> GLOBAL_LEVEL,
      children |-> <<>>, aliases |-> <<>>],
     [line |-> 480, kind |-> "group", var |-> "table_functions", keyword |-> "TABLE FUNCTIONS", level |-> GLOBAL_LEVEL,
      children |-> <<"file", "url", "input", "values", "numbers", "merge", "remote", "mysql", "odbc", "jdbc", "hdfs", "s3">>, aliases |-> <<>>],
     [line |-> 481, kind |-> "push", var |-> "all", keyword |-> "", level |-> GLOBAL_LEVEL,
      children |-> <<"table_functions">>, aliases |-> <<>>],
     [line |-> 483, kind |-> "root", var |-> "flags_to_keyword_tree_", keyword |-> "ALL", level |-> GLOBAL_LEVEL,
      children |-> <<>>, aliases |-> <<"ALL PRIVILEGES">>]
  >>

\* boost::to_upper, on the strings of the table that are not upper case and
\* on the keywords the registry is asked about.
UpperCased ==
  { <<"addressToLine()", "ADDRESSTOLINE()">>,
    <<"addressToSymbol()", "ADDRESSTOSYMBOL()">>,
    <<"cluster()", "CLUSTER()">>,
    <<"demangle()", "DEMANGLE()">>,
    <<"dictGet()", "DICTGET()">>,
    <<"dictGetHierarchy()", "DICTGETHIERARCHY()">>,
    <<"dictHas()", "DICTHAS()">>,
    <<"dictIsIn()", "DICTISIN()">>,
    <<"file()", "FILE()">>,
    <<"hdfs()", "HDFS()">>,
    <<"input()", "INPUT()">>,
    <<"jdbc()", "JDBC()">>,
    <<"merge()", "MERGE()">>,
    <<"mysql()", "MYSQL()">>,
    <<"numbers()", "NUMBERS()">>,
    <<"odbc()", "ODBC()">>,
    <<"remote()", "REMOTE()">>,
    <<"remoteSecure", "REMOTESECURE">>,
    <<"s3()", "S3()">>,
    <<"url()", "URL()">>,
    <<"values()", "VALUES()">>,
    <<"select", "SELECT">>,
    <<"Select", "SELECT">>,
    <<"alter update", "ALTER UPDATE">>,
    <<"Usage", "USAGE">>,
    <<"all privileges", "ALL PRIVILEGES">>,
    <<"Create User", "CREATE USER">>,
    <<"no privileges", "NO PRIVILEGES">> }

ToUpper(str) ==
  IF \E p \in UpperCased : p[1] = str
  THEN (CHOOSE p \in UpperCased : p[1] = str)[2]
  ELSE str

\* A null NodePtr (a unique_ptr that was never set or was moved from).
Null == [null |-> TRUE, keyword |-> "", aliases |-> <<>>, flags |-> {},
         level |-> GLOBAL_LEVEL, children |-> <<>>]

\* What child->flags and child->level read through a null NodePtr: undefined
\* behaviour. Either the process dies (SIGSEGV) or the reads give some value.
NullDeref ==
  { [crash |-> TRUE, flags |-> {}, level |-> GLOBAL_LEVEL],
    [crash |-> FALSE, flags |-> {}, level |-> GLOBAL_LEVEL],
    [crash |-> FALSE, flags |-> {0, 1}, level |-> Level_COLUMN] }

\* Node(keyword, flag, level)
LeafNode(keyword_, flag_, level_) ==
  [null |-> FALSE, keyword |-> keyword_, aliases |-> <<>>, flags |-> {flag_},
   level |-> level_, children |-> <<>>]

MaxLevel(levels) == CHOOSE l \in levels : \A m \in levels : m <= l

\* Node(keyword, children): flags |= child->flags, level = max(level, child->level).
GroupNode(keyword_, children_, ub) ==
  LET read(i) == IF children_[i].null THEN ub ELSE children_[i]
  IN [null |-> FALSE, keyword |-> keyword_, aliases |-> <<>>,
      flags |-> UNION {read(i).flags : i \in 1..Len(children_)},
      level |-> MaxLevel({GLOBAL_LEVEL} \cup {read(i).level : i \in 1..Len(children_)}),
      children |-> children_]

\* The local variables of makeFlagsToKeywordTree that hold a node.
LocalNames ==
  {Statements[i].var : i \in {j \in 1..Len(Statements) : Statements[j].kind \in {"leaf", "group"}}}

\* The Impl before instance() is first called: nothing constructed.
NotConstructed ==
  [status |-> "not_constructed", pc |-> 1, next_flag |-> 0,
   locals |-> [name \in LocalNames |-> Null], all |-> <<>>,
   flags_to_keyword_tree |-> Null,
   keyword_to_flags_map |-> <<>>,
   all_grantable_on_level |-> <<>>]

\* One statement of makeFlagsToKeywordTree. ub is what a read through a null
\* NodePtr does, should the statement make one.
ExecStatement(im, stmt, ub) ==
  LET kids == IF stmt.kind = "root" THEN im.all
              ELSE [i \in 1..Len(stmt.children) |-> im.locals[stmt.children[i]]]
      moved == {stmt.children[i] : i \in 1..Len(stmt.children)}
      null_child == \E i \in 1..Len(kids) : kids[i].null
      node == [GroupNode(stmt.keyword, kids, ub) EXCEPT !.aliases = stmt.aliases]
  IN CASE stmt.kind = "leaf" ->
            IF im.next_flag >= NUM_FLAGS
            THEN [im EXCEPT !.status = "out_of_range"]   \* std::bitset::set throws
            ELSE [im EXCEPT !.locals[stmt.var] =
                              [LeafNode(stmt.keyword, im.next_flag, stmt.level)
                                 EXCEPT !.aliases = stmt.aliases],
                            !.next_flag = @ + 1, !.pc = @ + 1]
       [] stmt.kind = "group" ->
            IF null_child /\ ub.crash
            THEN [im EXCEPT !.status = "SIGSEGV"]
            ELSE [im EXCEPT !.locals = [name \in LocalNames |->
                                          IF name = stmt.var THEN node
                                          ELSE IF name \in moved THEN Null
                                          ELSE im.locals[name]],
                            !.pc = @ + 1]
       [] stmt.kind = "push" ->
            [im EXCEPT !.all = @ \o kids,
                       !.locals = [name \in LocalNames |->
                                     IF name \in moved THEN Null ELSE im.locals[name]],
                       !.pc = @ + 1]
       [] stmt.kind = "root" ->
            IF null_child /\ ub.crash
            THEN [im EXCEPT !.status = "SIGSEGV"]
            ELSE [im EXCEPT !.flags_to_keyword_tree = node, !.all = <<>>, !.pc = @ + 1]

\* Whether a null NodePtr is among the children somewhere in the tree.
RECURSIVE HasNullChild(_)
HasNullChild(node) ==
  \E i \in 1..Len(node.children) :
    node.children[i].null \/ HasNullChild(node.children[i])

\* The assignments makeKeywordToFlagsMap makes for one node, in order: the
\* keyword when it is upper case (else its upper case joins the aliases), then
\* the aliases in upper case.
NodeAssignments(node) ==
  LET aliases == IF ToUpper(node.keyword) = node.keyword THEN node.aliases
                 ELSE Append(node.aliases, ToUpper(node.keyword))
      own == IF ToUpper(node.keyword) = node.keyword
             THEN <<[keyword |-> node.keyword, flags |-> node.flags]>> ELSE <<>>
  IN own \o [i \in 1..Len(aliases) |-> [keyword |-> ToUpper(aliases[i]), flags |-> node.flags]]

RECURSIVE TreeAssignments(_)
RECURSIVE ChildrenAssignments(_, _)
ChildrenAssignments(children, i) ==
  IF i > Len(children) THEN <<>>
  ELSE TreeAssignments(children[i]) \o ChildrenAssignments(children, i + 1)

TreeAssignments(node) == NodeAssignments(node) \o ChildrenAssignments(node.children, 1)

\* makeKeywordToFlagsMap over a tree without null children: USAGE, NONE and
\* NO PRIVILEGES stand for no flags, then every node from the root down; a
\* later assignment to the same keyword replaces the earlier.
MakeKeywordToFlagsMap(tree) ==
  LET assignments == << [keyword |-> "USAGE", flags |-> {}],
                         [keyword |-> "NONE", flags |-> {}],
                         [keyword |-> "NO PRIVILEGES", flags |-> {}] >> \o TreeAssignments(tree)
      keys == {assignments[i].keyword : i \in 1..Len(assignments)}
      last_of(k) == CHOOSE i \in 1..Len(assignments) :
                      /\ assignments[i].keyword = k
                      /\ \A j \in 1..Len(assignments) : assignments[j].keyword = k => j <= i
  IN [k \in keys |-> assignments[last_of(k)].flags]

RECURSIVE CollectAllGrantableOnLevel(_)

\* collectAllGrantableOnLevel that adds a node's flags at its own level only.
CollectAllGrantableOnLevel_OwnLevelOnly(node) ==
  [i \in GLOBAL_LEVEL..Level_COLUMN |->
     (IF i = node.level THEN node.flags ELSE {})
     \cup UNION {CollectAllGrantableOnLevel(node.children[j])[i] : j \in 1..Len(node.children)}]

\* collectAllGrantableOnLevel over a tree without null children: the flags of
\* every node, group or leaf, go to each level from 0 up to the node's level.
CollectAllGrantableOnLevel(node) ==
  [i \in GLOBAL_LEVEL..Level_COLUMN |->
     (IF i <= node.level THEN node.flags ELSE {})
     \cup UNION {CollectAllGrantableOnLevel(node.children[j])[i] : j \in 1..Len(node.children)}]

\* flagsToKeywordsRec over a tree without null children.
RECURSIVE FlagsToKeywordsRec(_, _)
RECURSIVE FlagsToKeywordsChildren(_, _, _)
FlagsToKeywordsChildren(flags, children, i) ==
  IF i > Len(children) THEN <<>>
  ELSE FlagsToKeywordsRec(flags, children[i]) \o FlagsToKeywordsChildren(flags, children, i + 1)

FlagsToKeywordsRec(flags, start_node) ==
  LET matching_flags == flags \cap start_node.flags
  IN IF matching_flags = {} THEN <<>>
     ELSE IF matching_flags = start_node.flags THEN <<start_node.keyword>>
     ELSE FlagsToKeywordsChildren(flags, start_node.children, 1)

\* flagsToKeywords
FlagsToKeywords(im, flags) ==
  LET keywords == FlagsToKeywordsRec(flags, im.flags_to_keyword_tree)
  IN IF keywords = <<>> THEN <<"USAGE">> ELSE keywords

\* keywordToFlags: the keyword as given, then in upper case.
KeywordToFlags(im, keyword) ==
  IF keyword \in DOMAIN im.keyword_to_flags_map
  THEN [error |-> "", flags |-> im.keyword_to_flags_map[keyword]]
  ELSE IF ToUpper(keyword) \in DOMAIN im.keyword_to_flags_map
  THEN [error |-> "", flags |-> im.keyword_to_flags_map[ToUpper(keyword)]]
  ELSE [error |-> "UNKNOWN_ACCESS_TYPE", flags |-> {}]

\* keywordsToFlags: the union; the first unknown keyword throws.
KeywordsToFlags(im, keywords) ==
  IF \E i \in 1..Len(keywords) : KeywordToFlags(im, keywords[i]).error # ""
  THEN [error |-> "UNKNOWN_ACCESS_TYPE", flags |-> {}]
  ELSE [error |-> "", flags |-> UNION {KeywordToFlags(im, keywords[i]).flags : i \in 1..Len(keywords)}]

\* One step of Impl(): the statements of makeFlagsToKeywordTree, then
\* makeKeywordToFlagsMap, then collectAllGrantableOnLevel. Both take a null
\* start_node for the first call and start over from the root, so a null
\* child in the tree makes them recurse until the stack is exhausted.
\* (makeAccessTypeToFlagsMapping works on Access/AccessType.h, which is not
\* part of the sources.)
ImplStep(im, ub) ==
  IF im.pc <= Len(Statements) THEN ExecStatement(im, Statements[im.pc], ub)
  ELSE IF HasNullChild(im.flags_to_keyword_tree) THEN [im EXCEPT !.status = "stack_overflow"]
  ELSE IF im.pc = Len(Statements) + 1
  THEN [im EXCEPT !.keyword_to_flags_map = MakeKeywordToFlagsMap(im.flags_to_keyword_tree),
                  !.pc = @ + 1]
  ELSE [im EXCEPT !.all_grantable_on_level = CollectAllGrantableOnLevel(im.flags_to_keyword_tree),
                  !.status = "constructed"]

\* The calls made to the registry: AccessFlags(keyword), AccessFlags(keywords),
\* toKeywords() of some flags, allGrantableOn{Database,Table,Column}Level().
RequestKeywords ==
  {"SELECT", "select", "Select", "INSERT", "ALTER UPDATE", "alter update", "CREATE USER",
   "TRUNCATE TABLE", "TRUNCATE", "dictGet()", "DICTGET()", "demangle()", "s3()",
   "ALL", "all privileges", "USAGE", "NO SUCH PRIVILEGE"}

RequestKeywordLists ==
  {<<k>> : k \in RequestKeywords}
  \cup {<<>>, <<"SELECT", "INSERT">>, <<"SELECT", "NO SUCH PRIVILEGE">>}

RequestFlags ==
  {{}, {1}, {1, 2}, {31}, {36, 37, 38, 39}, {40}, {40, 41}, {47}, {63}, {1, 40}}

RequestLevels == {Level_DATABASE, Level_TABLE, Level_COLUMN}

NoRequest ==
  [op |-> "none", keywords |-> <<>>, flags |-> {}, level |-> GLOBAL_LEVEL,
   outcome |-> "none", result_flags |-> {}, result_keywords |-> <<>>]

Requests ==
  {[NoRequest EXCEPT !.op = "keywordToFlags", !.keywords = <<k>>] : k \in RequestKeywords}
  \cup {[NoRequest EXCEPT !.op = "keywordsToFlags", !.keywords = ks] : ks \in RequestKeywordLists}
  \cup {[NoRequest EXCEPT !.op = "flagsToKeywords", !.flags = f] : f \in RequestFlags}
  \cup {[NoRequest EXCEPT !.op = "allGrantableOnLevel", !.level = l] : l \in RequestLevels}

\* What a call returns from the constructed Impl.
Answer(im, req) ==
  CASE req.op = "keywordToFlags" ->
         LET r == KeywordToFlags(im, req.keywords[1])
         IN [req EXCEPT !.outcome = IF r.error = "" THEN "ok" ELSE r.error,
                        !.result_flags = r.flags]
    [] req.op = "keywordsToFlags" ->
         LET r == KeywordsToFlags(im, req.keywords)
         IN [req EXCEPT !.outcome = IF r.error = "" THEN "ok" ELSE r.error,
                        !.result_flags = r.flags]
    [] req.op = "flagsToKeywords" ->
         [req EXCEPT !.outcome = "ok", !.result_keywords = FlagsToKeywords(im, req.flags)]
    [] req.op = "allGrantableOnLevel" ->
         [req EXCEPT !.outcome = "ok", !.result_flags = im.all_grantable_on_level[req.level]]

(***************************************************************************)
(* Access/AccessRightsContextFactory.cpp: createContext looks the Params   *)
(* up in an expiring cache under the factory's mutex and constructs an     *)
(* AccessRightsContext on a miss. The context reads the user and the       *)
(* enabled roles, subscribes for their changes and computes its result     *)
(* access on the first check after a change.                               *)
(***************************************************************************)
\* cache(60000 /* 1 minute */)
CacheExpireMs == 60000

\* How far one step of the clock goes, and where the clock stops.
TickMs == 30000
MaxTime == 60000

\* How many contexts are constructed and how many changes are committed.
MaxContexts == 2
MaxCommits == 1

\* How many times createContext is called.
MaxCalls == 2

Threads == {"t1", "t2"}

RoleId == "R"

\* AccessRightsContext::Params (the fields the model tells apart).
ParamsSet ==
  { [user_id |-> "U", current_role_ids |-> <<>>, readonly |-> FALSE],
    [user_id |-> "U", current_role_ids |-> <<RoleId>>, readonly |-> FALSE],
    [user_id |-> "U", current_role_ids |-> <<>>, readonly |-> TRUE] }

\* createContext(user_id, settings, current_database, client_info, ...):
\* the Params it fills in; current_role_ids is left as constructed (empty).
ParamsFromSettings(user_id_, readonly_) ==
  [user_id |-> user_id_, current_role_ids |-> <<>>, readonly |-> readonly_]

\* The Params createContext(params) gets called with: the callers' own, and
\* those the other overload fills in.
CallerParams == ParamsSet \cup {ParamsFromSettings("U", readonly_) : readonly_ \in BOOLEAN}

\* std::lock_guard lock{mutex}: the mutex can be taken when nobody holds it.
MutexFree_Always(holder) == TRUE

MutexFree(holder) == holder = "none"

\* operator ==(const Params & lhs, const Params & rhs): all fields are equal.
ParamsEqual(lhs, rhs) ==
  /\ lhs.user_id = rhs.user_id
  /\ lhs.current_role_ids = rhs.current_role_ids
  /\ lhs.readonly = rhs.readonly

\* An entry of the cache is valid until CacheExpireMs after it was added.
Valid(entry, time) == time - entry.added < CacheExpireMs

\* The keys of the cache equal to the Params.
KeysEqualTo(cache_, params) == {k \in DOMAIN cache_ : ParamsEqual(k, params)}

\* cache.get(params): the context of a valid entry, 0 when there is none.
CacheGet(cache_, params, time) ==
  IF \E k \in KeysEqualTo(cache_, params) : Valid(cache_[k], time)
  THEN cache_[CHOOSE k \in KeysEqualTo(cache_, params) : Valid(cache_[k], time)].ctx
  ELSE 0

\* What is left of the cache after get has dropped the expired entry it found.
CacheAfterGet(cache_, params, time) ==
  [k \in {key \in DOMAIN cache_ :
            ~(ParamsEqual(key, params) /\ ~Valid(cache_[key], time))} |-> cache_[k]]

\* cache.add that adds nothing.
CacheAdd_Dropped(cache_, params, ctx_, time) == cache_

\* cache.add(params, res)
CacheAdd(cache_, params, ctx_, time) ==
  [k \in (DOMAIN cache_ \ KeysEqualTo(cache_, params)) \cup {params} |->
     IF k = params THEN [ctx |-> ctx_, added |-> time] ELSE cache_[k]]

\* Params of a thread that has not called createContext.
NoParams == [user_id |-> "", current_role_ids |-> <<>>, readonly |-> FALSE]

\* result_access_cache of a context: nullptr, or the result access built.
NoResult == [built |-> FALSE, tree |-> EmptyNode]

\* The user and the role as the storage has them at the start: the user has
\* no access of its own and has the role granted, the role has INSERT on d1.t1.
InitialObjects ==
  << [access |-> EmptyNode, granted_roles |-> {RoleId}],
     [access |-> NodeGrant(EmptyNode, {INSERT}, <<"d1", "t1">>).node, granted_roles |-> {}] >>

InitialPublished == [user |-> 1, role |-> 2]

\* The changes that get committed to the user or to the role.
ChangeOps ==
  { [entity |-> "user", kind |-> "grant", access |-> {SELECT}, path |-> <<"d1", "t1">>],
    [entity |-> "role", kind |-> "grant", access |-> {SELECT}, path |-> <<"d1">>],
    [entity |-> "user", kind |-> "revoke_role", access |-> {}, path |-> <<>>] }

NoChange == [entity |-> "", kind |-> "", access |-> {}, path |-> <<>>]

\* The paths a check asks about.
CheckPaths == {<<"d1">>, <<"d1", "t1">>}

\* Node::grant(add_access, names...) as far as "access |= add_access" of the
\* node granted at: the children have not been given the access yet.
RECURSIVE NodeGrantPartly(_, _, _)
NodeGrantPartly(node, add_access, path) ==
  IF path = <<>>
  THEN LET add == add_access \ node.grants
       IN [node EXCEPT !.grants = @ \cup (add \ GetPartialRevokes(node)),
                       !.access = @ \cup add]
  ELSE LET name == Head(path)
           n1 == GetIterator(node, name)
       IN [n1 EXCEPT !.children[name] = NodeGrantPartly(@, add_access, Tail(path))]

\* The entity with the change under way.
ApplyPartly(object, op) ==
  IF op.kind = "grant"
  THEN [object EXCEPT !.access = NodeGrantPartly(@, op.access, op.path)]
  ELSE object

\* The entity with the change made.
ApplyChange(object, op) ==
  IF op.kind = "grant"
  THEN [object EXCEPT !.access = NodeGrant(@, op.access, op.path).node]
  ELSE [object EXCEPT !.granted_roles = @ \ {RoleId}]

\* The object a change is made in: the published one edited in place.
WriterTarget_InPlace(published_id, fresh_id) == published_id

\* The object a change is made in: a copy, published when the change is made.
WriterTarget(published_id, fresh_id) == fresh_id

\* The roles of the Params that the user has been granted.
EnabledRoles(params, user_object) ==
  {params.current_role_ids[i] : i \in DOMAIN params.current_role_ids}
    \cap user_object.granted_roles

\* calculateResultAccess: the user's access merged with the access of the
\* enabled roles.
CalculateResultAccess(params, user_object, role_object) ==
  IF RoleId \in EnabledRoles(params, user_object)
  THEN NodeMerge(user_object.access, NoParentAccess, role_object.access)
  ELSE user_object.access

\* The mask the readonly setting leaves of a result.
ReadonlyMask(params) ==
  IF params.readonly THEN {SELECT} ELSE DATABASE_LEVEL \cup {NOT_GRANTABLE}

\* What a check through a result access finds granted at a path.
CheckAnswer(tree, params, path) == GetAccess(tree, path) \cap ReadonlyMask(params)

CheckAnswers(tree, params) == [path \in CheckPaths |-> CheckAnswer(tree, params, path)]

NoAnswers == [path \in CheckPaths |-> {}]

\* The subscription's handler that takes the changed entity and keeps the
\* result access it has.
OnChange_KeepsResult(context, published_) ==
  [context EXCEPT !.user_ref = published_.user, !.role_ref = published_.role]

\* The handler of subscription_for_user_change and of the roles' changes:
\* setUser / setRolesInfo take the changed entity and drop the result access.
OnChange(context, published_) ==
  [context EXCEPT !.user_ref = published_.user, !.role_ref = published_.role,
                  !.result = NoResult]

\* A thread outside createContext.
NoThread == [pc |-> "idle", params |-> NoParams, got |-> 0, get_time |-> 0]

\* What a call of createContext returned: the context, the time of the cache
\* lookup, the time the cache entry of the context is valid until, and how
\* many states of the entities had been published.
NoReturn == [params |-> NoParams, ctx |-> 0, time |-> 0, valid_until |-> 0, epoch |-> 0]

\* The last check: its Params and context, where the writer was and how many
\* states of the entities had been published when it began, and its answers.
NoCheck == [params |-> NoParams, ctx |-> 0, writer_pc |-> "", epoch |-> 0,
            done |-> FALSE, answers |-> NoAnswers]

NoWriter == [pc |-> "idle", op |-> NoChange, target |-> 0, before |-> InitialObjects[1],
             pending |-> {}]

(***************************************************************************)
(* AccessFlags as a value (Access/AccessFlags.h): a mask is the set of the *)
(* bits that are set in its std::bitset<NUM_FLAGS>.                        *)
(***************************************************************************)
\* The masks of the model: made of the first two bits and of the last.
Masks == SUBSET {0, 1, NUM_FLAGS - 1}

\* isEmpty(): flags.none().
IsEmpty(flags) == \A bit \in 0..(NUM_FLAGS - 1) : bit \notin flags

\* explicit operator bool(): return isEmpty().
OperatorBool(flags) == IsEmpty(flags)

(***************************************************************************)
(* AllowedHosts (Account/AllowedHosts.cpp). An address is its family, the  *)
(* bits it has above its last two (none, or the ::FFFF: of an IPv4-mapped  *)
(* address) and its last two bits; a mask is the number of its leading     *)
(* ones. A compiled regular expression is the pattern it was made from,    *)
(* and a null slot of host_regexps_compiled is "".                         *)
(***************************************************************************)
HostObjects == {1, 2}

MaxHostOps == 3

IPAddresses == {[family |-> "IPv4", high |-> "", low |-> 1],
                [family |-> "IPv4", high |-> "", low |-> 2],
                [family |-> "IPv6", high |-> "", low |-> 1]}

IPSubnets == {[prefix |-> [family |-> "IPv4", high |-> "", low |-> 2], mask |-> mask] :
                mask \in {[family |-> "IPv4", ones |-> 32], [family |-> "IPv4", ones |-> 31],
                          [family |-> "IPv6", ones |-> 126]}}

HostNames == {"h1", "h2"}

\* Two patterns that compile and one that does not.
HostRegexps == {"h1", ".*", "("}

\* toIPv6: "::FFFF:" + addr.toString() for an IPv4 address.
ToIPv6(addr) ==
  IF addr.family = "IPv6" THEN addr
  ELSE [family |-> "IPv6", high |-> "::FFFF:", low |-> addr.low]

\* address & mask, for the masks that end in the last two bits.
MaskedBy(addr, mask) ==
  [addr EXCEPT !.low = IF mask.ones = 128 THEN addr.low
                       ELSE IF mask.ones = 127 THEN 2 * (addr.low \div 2)
                       ELSE 0]

\* operator< of the addresses, of the subnets (operator< of IPSubnet) and
\* of the strings, by which the vectors are kept sorted.
AddressLess(a, b) ==
  \/ a.high = "" /\ b.high # ""
  \/ a.high = b.high /\ a.low < b.low

SubnetLess(lhs, rhs) ==
  \/ AddressLess(lhs.prefix, rhs.prefix)
  \/ lhs.prefix = rhs.prefix /\ lhs.mask.ones < rhs.mask.ones

StringLess(a, b) ==
  LET rank(s) == CASE s = "(" -> 1 [] s = ".*" -> 2 [] s = "h1" -> 3 [] OTHER -> 4
  IN rank(a) < rank(b)

\* std::upper_bound on a sorted vector, as a position from 0: the first of
\* the positions whose element is greater than the value, or the end.
UpperBound(vector, greater) ==
  IF greater = {} THEN Len(vector)
  ELSE (CHOOSE i \in greater : \A j \in greater : i <= j) - 1

\* vector.insert(vector.begin() + pos, value), for pos <= vector.size().
InsertAt(vector, pos, value) ==
  SubSeq(vector, 1, pos) \o <<value>> \o SubSeq(vector, pos + 1, Len(vector))

\* The name service: "h1" has the IPv4 address 1, "h2" is not known to it,
\* and only the IPv4 address 1 has a name.
IsAddressOfHost(address, host) ==
  IF host # "h1" THEN "DNS_ERROR"
  ELSE IF ToIPv6(address) = [family |-> "IPv6", high |-> "::FFFF:", low |-> 1] THEN "true"
  ELSE "false"

GetHostByAddress(address) ==
  IF ToIPv6(address) = [family |-> "IPv6", high |-> "::FFFF:", low |-> 1] THEN "h1"
  ELSE "DNS_ERROR"

NoHosts == [ip_addresses |-> <<>>, ip_subnets |-> <<>>, hosts |-> <<>>,
            host_regexps |-> <<>>, host_regexps_compiled |-> <<>>]

\* What a call returns to the model: the object after it, the exception it
\* threw, its result, and what an access past the end of the compiled
\* list did.
Returns(h) == [hosts |-> h, error |-> "", result |-> FALSE, ub |-> ""]

\* What a read or an insertion past the end of host_regexps_compiled does.
PastTheEnd == {"SIGSEGV", "out_of_bounds_access"}

\* addIPAddress
AddIPAddress(h, address) ==
  LET addr_v6 == ToIPv6(address)
      pos == UpperBound(h.ip_addresses,
               {i \in 1..Len(h.ip_addresses) : AddressLess(addr_v6, h.ip_addresses[i])})
  IN [h EXCEPT !.ip_addresses = InsertAt(@, pos, addr_v6)]

\* addIPSubnet(const IPSubnet &), with maskToIPv6: IPAddress(96, IPv6) |
\* toIPv6(mask), which has 96 more leading ones.
AddIPSubnet(h, subnet) ==
  LET mask == IF subnet.mask.family = "IPv6" THEN subnet.mask
              ELSE [family |-> "IPv6", ones |-> 96 + subnet.mask.ones]
      subnet_v6 == [prefix |-> MaskedBy(ToIPv6(subnet.prefix), mask), mask |-> mask]
      pos == UpperBound(h.ip_subnets,
               {i \in 1..Len(h.ip_subnets) : SubnetLess(subnet_v6, h.ip_subnets[i])})
  IN IF mask.ones = 128 THEN AddIPAddress(h, subnet.prefix)
     ELSE [h EXCEPT !.ip_subnets = InsertAt(@, pos, subnet_v6)]

\* addHost
AddHost(h, host) ==
  LET pos == UpperBound(h.hosts, {i \in 1..Len(h.hosts) : StringLess(host, h.hosts[i])})
  IN [h EXCEPT !.hosts = InsertAt(@, pos, host)]

\* addHostRegexp: Poco::RegularExpression(host_regexp) throws for a pattern
\* that does not compile; the insertion into the compiled list is past its
\* end when new_pos is.
AddHostRegexp(h, host_regexp, past_the_end) ==
  LET new_pos == UpperBound(h.host_regexps,
                   {i \in 1..Len(h.host_regexps) : StringLess(host_regexp, h.host_regexps[i])})
      inserted == [h EXCEPT !.host_regexps = InsertAt(@, new_pos, host_regexp)]
  IN IF host_regexp = "("
     THEN [Returns(h) EXCEPT !.error = "RegularExpressionException"]
     ELSE IF new_pos <= Len(h.host_regexps_compiled)
     THEN Returns([inserted EXCEPT !.host_regexps_compiled =
                     InsertAt(@, new_pos, host_regexp)])
     ELSE [Returns(inserted) EXCEPT !.ub = past_the_end]

\* operator=
Assign(dst, src) ==
  [ip_addresses |-> src.ip_addresses, ip_subnets |-> src.ip_subnets,
   hosts |-> src.hosts, host_regexps |-> src.host_regexps,
   host_regexps_compiled |-> <<>>]

\* containsImpl: the compiled list is mutable, and the patterns not yet
\* compiled are compiled into the slots the list has; error is the first
\* error it kept.
ContainsImpl(h, address, past_the_end) ==
  LET addr_v6 == ToIPv6(address)
      in_addresses == \E i \in 1..Len(h.ip_addresses) : h.ip_addresses[i] = addr_v6
      in_subnets == \E i \in 1..Len(h.ip_subnets) :
                      MaskedBy(addr_v6, h.ip_subnets[i].mask) = h.ip_subnets[i].prefix
      in_hosts == \E i \in 1..Len(h.hosts) : IsAddressOfHost(address, h.hosts[i]) = "true"
      hosts_error == IF \E i \in 1..Len(h.hosts) :
                          IsAddressOfHost(address, h.hosts[i]) = "DNS_ERROR"
                     THEN "DNS_ERROR" ELSE ""
      compiled == [h EXCEPT !.host_regexps_compiled =
                     [i \in 1..Len(@) |->
                        IF i <= Len(h.host_regexps) /\ @[i] = "" THEN h.host_regexps[i]
                        ELSE @[i]]]
      resolved_host == GetHostByAddress(address)
      matched == /\ resolved_host # "DNS_ERROR"
                 /\ \E i \in 1..Len(compiled.host_regexps_compiled) :
                       LET compiled_regexp == compiled.host_regexps_compiled[i]
                       IN compiled_regexp = ".*" \/ compiled_regexp = resolved_host
  IN IF in_addresses \/ in_subnets \/ in_hosts
     THEN [Returns(h) EXCEPT !.result = TRUE]
     ELSE IF h.host_regexps = <<>> THEN [Returns(h) EXCEPT !.error = hosts_error]
     ELSE IF Len(h.host_regexps_compiled) < Len(h.host_regexps)
     THEN [Returns(compiled) EXCEPT !.result = matched, !.ub = past_the_end]
     ELSE [Returns(compiled) EXCEPT
             !.result = matched,
             !.error = IF hosts_error # "" THEN hosts_error
                       ELSE IF resolved_host = "DNS_ERROR" THEN "DNS_ERROR" ELSE ""]

\* checkContains: returns, rethrows the error kept or throws
\* IP_ADDRESS_NOT_ALLOWED.
CheckContains(h, address, past_the_end) ==
  LET res == ContainsImpl(h, address, past_the_end)
  IN [res EXCEPT !.error = IF res.result THEN ""
                           ELSE IF res.error # "" THEN res.error
                           ELSE "IP_ADDRESS_NOT_ALLOWED"]

NoHostsCall == [op |-> "none", object |-> 0, error |-> "", result |-> FALSE,
                ub |-> "", n |-> 0]

(***************************************************************************)
(* The gRPC server (Server/GRPCServer.cpp): the Runner with its queue      *)
(* thread, the calls with their call threads, and the responder of each    *)
(* call with its map of callbacks.                                         *)
(***************************************************************************)
CallTypes == {"CALL_SIMPLE", "CALL_STREAMING_INPUT", "CALL_STREAMING_OUTPUT",
              "CALL_STREAMING"}

IsInputStreaming(call_type) ==
  call_type = "CALL_STREAMING_INPUT" \/ call_type = "CALL_STREAMING"

IsOutputStreaming(call_type) ==
  call_type = "CALL_STREAMING_OUTPUT" \/ call_type = "CALL_STREAMING"

\* The connections the clients make, the extra QueryInfos with input data
\* of one call, and the intermediate results of one call.
MaxConnections == 1

MaxExtraInputs == 1

MaxResults == 1

CallIds == 1..MaxConnections

\* The callback ids one responder can give: the first read, the extra
\* inputs, the scan, the results and the final result of finishQuery and
\* of sendException.
CallbackIds == 0..(MaxExtraInputs + MaxResults + 3)

\* A Call with its responder. The operation op is "read" (readQueryInfo),
\* "scan" (startAsyncScanForCancel), "write" (sendResult) or "finish"
\* (sendFinalResult). step is where the call thread is inside the
\* operation it issues: "insert" inside callbacks[callback_id] of
\* getCallbackPtr, "wait_check" at the predicate of signal.wait,
\* "wait_enter" between the predicate and the wait, "waiting" in the wait.
NoGrpcCall ==
  [call_type |-> "CALL_MAX", pc |-> "none", step |-> "idle", op |-> "",
   responder |-> FALSE, callbacks |-> {}, next_callback_id |-> 0, in_flight |-> {},
   inserting |-> FALSE, erasing |-> FALSE, raced |-> FALSE,
   completed |-> FALSE, ok |-> FALSE, query_info_cancel |-> FALSE,
   failed_to_send_result |-> FALSE, client_want_to_cancel |-> FALSE,
   inputs |-> 0, results |-> 0]

\* The tag of an operation: the pointer to its callback in the map of the
\* responder, with what the completion brings (ok, and the cancel flag of
\* the QueryInfo read).
NoTag == [kind |-> "none", call_type |-> "CALL_MAX", call |-> 0, id |-> 0, op |-> "",
          ok |-> FALSE, cancel |-> FALSE]

\* getCallbackPtr up to the insertion into the map: the call thread is
\* inside callbacks[callback_id], for the operation op. The operations
\* that are waited for start with completed = false and ok = false.
GetCallbackPtr(call, op) ==
  [call EXCEPT !.op = op, !.step = "insert", !.inserting = TRUE,
               !.raced = call.erasing,
               !.completed = IF op \in {"read", "finish"} THEN FALSE ELSE @,
               !.ok = IF op \in {"read", "finish"} THEN FALSE ELSE @]

\* One step of Call::run where the call thread is not inside an operation:
\* up to the next operation it issues, or to the next function.
RunStep(call, choice) ==
  CASE call.pc = "receiveQuery" ->
         \* receiveQuery: readQueryInfo.
         GetCallbackPtr(call, "read")
    [] call.pc = "processInput" ->
         \* processInput: while the QueryInfo says use_next_input_data,
         \* which only a streaming input may, readQueryInfo.
         IF ~choice THEN [call EXCEPT !.pc = "generateOutput"]
         ELSE IF ~IsInputStreaming(call.call_type) THEN [call EXCEPT !.pc = "onException"]
         ELSE GetCallbackPtr([call EXCEPT !.inputs = @ + 1], "read")
    [] call.pc = "generateOutput" ->
         \* generateOutput: nothing for a query without output, otherwise
         \* startAsyncScanForCancel and the loop over the blocks.
         IF ~choice THEN [call EXCEPT !.pc = "finishQuery"]
         ELSE IF IsInputStreaming(call.call_type)
         THEN GetCallbackPtr([call EXCEPT !.pc = "output"], "scan")
         ELSE [call EXCEPT !.pc = "output"]
    [] call.pc = "output" ->
         \* One turn of the loop: throwIfFailedToSendResult,
         \* isQueryCancelled, then the last block or sendResult.
         IF call.failed_to_send_result THEN [call EXCEPT !.pc = "onException"]
         ELSE IF call.client_want_to_cancel \/ ~choice
         THEN [call EXCEPT !.pc = "finishQuery"]
         ELSE IF IsOutputStreaming(call.call_type)
         THEN GetCallbackPtr([call EXCEPT !.results = @ + 1], "write")
         ELSE [call EXCEPT !.results = @ + 1]
    [] call.pc = "finishQuery" ->
         \* finishQuery: throwIfFailedToSendResult, sendFinalResult.
         IF call.failed_to_send_result THEN [call EXCEPT !.pc = "onException"]
         ELSE GetCallbackPtr(call, "finish")
    [] call.pc = "onException" ->
         \* onException: sendException, which ends with sendFinalResult.
         GetCallbackPtr([call EXCEPT !.pc = "sendException"], "finish")
    [] OTHER ->
         \* close: responder.reset() destroys the responder with its map.
         [call EXCEPT !.pc = "onFinishCall", !.responder = FALSE, !.callbacks = {}]

\* Where the call thread continues after a wait: the rest of readQueryInfo
\* or of sendFinalResult, and Call::run with its catch.
AfterWait(call) ==
  LET read == [call EXCEPT !.client_want_to_cancel = @ \/ call.query_info_cancel]
  IN CASE call.pc = "receiveQuery" ->
            IF ~call.ok THEN [call EXCEPT !.pc = "onException"]
            ELSE [read EXCEPT !.pc = "processInput"]
       [] call.pc = "processInput" ->
            IF ~call.ok THEN [call EXCEPT !.pc = "onException"]
            ELSE IF read.client_want_to_cancel THEN [read EXCEPT !.pc = "generateOutput"]
            ELSE read
       [] call.pc = "finishQuery" ->
            IF call.failed_to_send_result THEN [call EXCEPT !.pc = "onException"]
            ELSE [call EXCEPT !.pc = "close"]
       [] OTHER -> [call EXCEPT !.pc = "close"]

\* The callback of an operation, called on the queue thread. A read that
\* completed has filled query_info; notify_one wakes the call thread if it
\* is in the wait.
CallbackToCall(call, tag) ==
  LET filled == IF tag.ok /\ tag.op \in {"read", "scan"}
                THEN [call EXCEPT !.query_info_cancel = tag.cancel] ELSE call
      notified == [filled EXCEPT !.completed = TRUE,
                                 !.step = IF @ = "waiting" THEN "wait_check" ELSE @]
  IN CASE tag.op = "read" -> [notified EXCEPT !.ok = tag.ok]
       [] tag.op = "scan" ->
            [filled EXCEPT !.client_want_to_cancel = @ \/ (tag.ok /\ tag.cancel)]
       [] tag.op = "write" ->
            [filled EXCEPT !.failed_to_send_result = @ \/ ~tag.ok]
       [] OTHER -> [notified EXCEPT !.failed_to_send_result = @ \/ ~tag.ok]

(***************************************************************************)
(* State: the tree of one AllowedDatabases object, the last call made on   *)
(* it with what it returned, and the tree as it was before that call.      *)
(***************************************************************************)
VARIABLES root, last, pre, nops, impl, request,
          now, mutex, cache, contexts, threads, objects, published, writer, history,
          returns, last_check,
          access_flags, flags_call, allowed_hosts, hosts_call,
          runner, queue_thread, queue, calls, grpc_server

resolverVars == <<now, mutex, cache, contexts, threads, objects, published, writer,
                  history, returns, last_check>>

maskVars == <<access_flags, flags_call>>

hostsVars == <<allowed_hosts, hosts_call>>

grpcVars == <<runner, queue_thread, queue, calls, grpc_server>>

serverVars == <<maskVars, hostsVars, grpcVars>>

vars == <<root, last, pre, nops, impl, request, resolverVars, serverVars>>

NoCall == [op |-> "none", access |-> {}, path |-> <<>>, partial_revokes |-> FALSE,
           changed |-> FALSE, error |-> "", denied |-> {}, other |-> EmptyNode,
           columns |-> <<>>, current_database |-> "", queries |-> {}]

Init ==
  /\ root = EmptyNode
  /\ last = NoCall
  /\ pre = EmptyNode
  /\ nops = 0
  /\ impl = NotConstructed
  /\ request = NoRequest
  /\ now = 0
  /\ mutex = "none"
  /\ cache = [k \in {} |-> 0]
  /\ contexts = <<>>
  /\ threads = [t \in Threads |-> NoThread]
  /\ objects = InitialObjects
  /\ published = InitialPublished
  /\ writer = NoWriter
  /\ history = << [user |-> InitialObjects[1], role |-> InitialObjects[2]] >>
  /\ returns = [n |-> 0, last |-> NoReturn, prev |-> NoReturn]
  /\ last_check = NoCheck
  /\ access_flags = {}
  /\ flags_call = [op |-> "none", other |-> {}, result |-> FALSE]
  /\ allowed_hosts = [object \in HostObjects |-> NoHosts]
  /\ hosts_call = NoHostsCall
  /\ runner = [should_stop |-> FALSE, responders_for_new_calls |-> {}, requested |-> {},
               current_calls |-> {}, finished_calls |-> {}]
  /\ queue_thread = [pc |-> "none", tag |-> NoTag]
  /\ queue = {}
  /\ calls = [c \in CallIds |-> NoGrpcCall]
  /\ grpc_server = [pc |-> "constructed", connections |-> 0]

\* AllowedDatabases::grant(access, database, table, column)
Grant(access, path) ==
  /\ nops < MaxOps
  /\ nops' = nops + 1
  /\ UNCHANGED <<impl, request, resolverVars, serverVars>>
  /\ pre' = root
  /\ IF access \ GrantableAt(path) # {}
     THEN /\ root' = root
          /\ last' = [NoCall EXCEPT !.op = "grant", !.access = access, !.path = path,
                                    !.error = "INVALID_GRANT"]
     ELSE LET r == NodeGrant(root, access, path)
          IN /\ root' = r.node
             /\ last' = [NoCall EXCEPT !.op = "grant", !.access = access, !.path = path,
                                       !.changed = r.changed]

\* AllowedDatabases::revoke(access, database, table, column, partial_revokes)
Revoke(access, path, partial_revokes) ==
  /\ nops < MaxOps
  /\ nops' = nops + 1
  /\ UNCHANGED <<impl, request, resolverVars, serverVars>>
  /\ pre' = root
  /\ LET r == NodeRevoke(root, NoParentAccess, access, path, partial_revokes)
     IN /\ root' = r.node
        /\ last' = [NoCall EXCEPT !.op = "revoke", !.access = access, !.path = path,
                                  !.partial_revokes = partial_revokes,
                                  !.changed = r.changed]

\* AllowedDatabases::merge
Merge(other) ==
  /\ nops < MaxOps
  /\ nops' = nops + 1
  /\ UNCHANGED <<impl, request, resolverVars, serverVars>>
  /\ pre' = root
  /\ root' = NodeMerge(root, NoParentAccess, other)
  /\ last' = [NoCall EXCEPT !.op = "merge", !.other = other, !.changed = TRUE]

\* checkAccess with "access & getAccess()" for "access & ~getAccess()".
CheckAccess_Inverted(access, path) ==
  /\ nops < MaxOps
  /\ nops' = nops + 1
  /\ UNCHANGED <<impl, request, resolverVars, serverVars>>
  /\ pre' = root
  /\ root' = root
  /\ LET access_denied == access \cap GetAccess(root, path)
     IN last' = [NoCall EXCEPT !.op = "checkAccess", !.access = access, !.path = path,
                               !.denied = access_denied,
                               !.error = IF access_denied # {} THEN "NOT_ENOUGH_PRIVILEGES"
                                         ELSE ""]

\* AllowedDatabases::checkAccess(user_name, access, database, table, column)
CheckAccess(access, path) ==
  /\ nops < MaxOps
  /\ nops' = nops + 1
  /\ UNCHANGED <<impl, request, resolverVars, serverVars>>
  /\ pre' = root
  /\ root' = root
  /\ LET access_denied == access \ GetAccess(root, path)
     IN last' = [NoCall EXCEPT !.op = "checkAccess", !.access = access, !.path = path,
                               !.denied = access_denied,
                               !.error = IF access_denied # {} THEN "NOT_ENOUGH_PRIVILEGES"
                                         ELSE ""]

\* AllowedDatabases::checkAccess(user_name, access, database, table, columns)
CheckAccessColumns(access, path, columns) ==
  /\ nops < MaxOps
  /\ nops' = nops + 1
  /\ UNCHANGED <<impl, request, resolverVars, serverVars>>
  /\ pre' = root
  /\ root' = root
  /\ LET access_denied == access \ GetAccessOfList(root, path, columns)
     IN last' = [NoCall EXCEPT !.op = "checkAccessColumns", !.access = access,
                               !.path = path, !.columns = columns,
                               !.denied = access_denied,
                               !.error = IF access_denied # {} THEN "NOT_ENOUGH_PRIVILEGES"
                                         ELSE ""]

\* SHOW GRANTS for a role with this tree as its privileges:
\* InterpreterShowGrantsQuery::enumerateGrantQueries
ShowGrants(current_database) ==
  /\ nops < MaxOps
  /\ nops' = nops + 1
  /\ UNCHANGED <<impl, request, resolverVars, serverVars>>
  /\ pre' = root
  /\ root' = root
  /\ last' = [NoCall EXCEPT !.op = "showGrants", !.current_database = current_database,
                            !.queries = EnumerateGrantQueries(GetInfo(root), current_database)]

Next ==
  \/ \E access \in GrantAccessTypes, path \in OpPaths : Grant(access, path)
  \/ \E access \in AccessTypes, path \in OpPaths, partial_revokes \in BOOLEAN :
       /\ path = <<>> => ~partial_revokes
       /\ Revoke(access, path, partial_revokes)
  \/ \E other \in RoleTrees : Merge(other)
  \/ \E access \in AccessTypes, path \in OpPaths : CheckAccess(access, path)
  \/ \E access \in AccessTypes, path \in CheckTables, columns \in ColumnLists :
       CheckAccessColumns(access, path, columns)
  \/ \E current_database \in CurrentDatabases : ShowGrants(current_database)

Spec == Init /\ [][Next]_vars

(***************************************************************************)
(* The registry: a call arrives; instance() constructs the Impl on first   *)
(* use, statement by statement; the call is answered from the constructed  *)
(* Impl, or ends as the construction ends. After std::out_of_range the     *)
(* static is still not initialized and the next call constructs again; a   *)
(* SIGSEGV or an exhausted stack ends the process.                         *)
(***************************************************************************)
ProcessDied == impl.status \in {"SIGSEGV", "stack_overflow"}

BeginRequest(req) ==
  /\ ~ProcessDied
  /\ request.outcome # "pending"
  /\ IF impl.status = "constructed"
     THEN /\ request' = Answer(impl, req)
          /\ impl' = impl
     ELSE /\ request' = [req EXCEPT !.outcome = "pending"]
          /\ impl' = [NotConstructed EXCEPT !.status = "constructing"]
  /\ UNCHANGED <<root, last, pre, nops, resolverVars, serverVars>>

ConstructStep(ub) ==
  /\ request.outcome = "pending"
  /\ impl.status = "constructing"
  /\ impl' = ImplStep(impl, ub)
  /\ request' = IF impl'.status = "constructed" THEN Answer(impl', request)
                ELSE IF impl'.status = "constructing" THEN request
                ELSE [request EXCEPT !.outcome = impl'.status]
  /\ UNCHANGED <<root, last, pre, nops, resolverVars, serverVars>>

RegistryNext ==
  \/ \E req \in Requests : BeginRequest(req)
  \/ \E ub \in NullDeref : ConstructStep(ub)

RegistrySpec == Init /\ [][RegistryNext]_vars

(***************************************************************************)
(* The resolver: threads that call createContext and check through the     *)
(* context they got, a clock, and a writer that commits changes to the     *)
(* user or to the role and notifies the subscribed contexts.               *)
(***************************************************************************)
aclAndRegistryVars == <<root, last, pre, nops, impl, request>>

\* The cache entries expire as the time passes.
Tick ==
  /\ now + TickMs <= MaxTime
  /\ now' = now + TickMs
  /\ UNCHANGED <<aclAndRegistryVars, serverVars, mutex, cache, contexts, threads, objects,
                 published, writer, history, returns, last_check>>

\* The record of a call that returns the context.
Returned(params, ctx_, time, added) ==
  [n |-> returns.n + 1,
   last |-> [params |-> params, ctx |-> ctx_, time |-> time,
             valid_until |-> added + CacheExpireMs, epoch |-> Len(history)],
   prev |-> returns.last]

\* createContext(params), called by a thread, as far as the cache lookup:
\*   std::lock_guard lock{mutex}; auto x = cache.get(params); if (x) return *x;
\* On a hit the thread has its context and the mutex is free again; on a miss
\* it goes on to construct one, holding the mutex.
CreateContext(t, params) ==
  /\ threads[t].pc = "idle"
  /\ returns.n + Cardinality({u \in Threads : threads[u].pc = "make"}) < MaxCalls
  /\ MutexFree(mutex)
  /\ LET x == CacheGet(cache, params, now)
     IN /\ threads' = [threads EXCEPT ![t] =
             [pc |-> IF x # 0 THEN "have" ELSE "make", params |-> params,
              got |-> x, get_time |-> now]]
        /\ mutex' = IF x # 0 THEN "none" ELSE t
        /\ returns' = IF x # 0 THEN Returned(params, x, now, contexts[x].added)
                      ELSE returns
  /\ cache' = CacheAfterGet(cache, params, now)
  /\ UNCHANGED <<aclAndRegistryVars, serverVars, now, contexts, objects, published, writer,
                 history, last_check>>

\* The rest of createContext after a miss:
\*   auto res = std::make_shared<AccessRightsContext>(manager, params);
\*   cache.add(params, res); return res;
\* The context reads the user and the roles and subscribes for their changes.
MakeAndAdd(t) ==
  /\ threads[t].pc = "make"
  /\ Len(contexts) < MaxContexts
  /\ contexts' = Append(contexts,
       [params |-> threads[t].params, user_ref |-> published.user,
        role_ref |-> published.role, result |-> NoResult,
        requested |-> threads[t].get_time, added |-> now])
  /\ cache' = CacheAdd(cache, threads[t].params, Len(contexts) + 1, now)
  /\ threads' = [threads EXCEPT ![t].pc = "have", ![t].got = Len(contexts) + 1]
  /\ mutex' = "none"
  /\ returns' = Returned(threads[t].params, Len(contexts) + 1, threads[t].get_time, now)
  /\ UNCHANGED <<aclAndRegistryVars, serverVars, now, objects, published, writer, history,
                 last_check>>

\* A check through the context: it loads the context's result access, which
\* is calculated from the user and the roles the context has when there is
\* none, and answers from it.
Check(t) ==
  /\ threads[t].pc = "have"
  /\ LET c == threads[t].got
         context == contexts[c]
         result == IF context.result.built THEN context.result
                   ELSE [built |-> TRUE,
                         tree |-> CalculateResultAccess(context.params,
                                    objects[context.user_ref], objects[context.role_ref])]
     IN /\ contexts' = [contexts EXCEPT ![c].result = result]
        /\ threads' = [threads EXCEPT ![t] = NoThread]
        /\ last_check' = [params |-> threads[t].params, ctx |-> c,
                          writer_pc |-> writer.pc, epoch |-> Len(history), done |-> TRUE,
                          answers |-> CheckAnswers(result.tree, threads[t].params)]
  /\ UNCHANGED <<aclAndRegistryVars, serverVars, now, mutex, cache, objects, published,
                 writer, history, returns>>

\* A GRANT or a change of the granted roles begins: the entity is copied.
BeginChange(op) ==
  /\ writer.pc = "idle"
  /\ Len(history) <= MaxCommits
  /\ objects' = Append(objects, objects[published[op.entity]])
  /\ writer' = [pc |-> "begun", op |-> op,
                target |-> WriterTarget(published[op.entity], Len(objects) + 1),
                before |-> objects[published[op.entity]],
                pending |-> {}]
  /\ UNCHANGED <<aclAndRegistryVars, serverVars, now, mutex, cache, contexts, threads,
                 published, history, returns, last_check>>

\* The change is under way in the object it is made in.
ChangePartly ==
  /\ writer.pc = "begun"
  /\ objects' = [objects EXCEPT ![writer.target] = ApplyPartly(writer.before, writer.op)]
  /\ writer' = [writer EXCEPT !.pc = "partly"]
  /\ UNCHANGED <<aclAndRegistryVars, serverVars, now, mutex, cache, contexts, threads,
                 published, history, returns, last_check>>

\* The change is made in the object.
ChangeComplete ==
  /\ writer.pc = "partly"
  /\ objects' = [objects EXCEPT ![writer.target] = ApplyChange(writer.before, writer.op)]
  /\ writer' = [writer EXCEPT !.pc = "complete"]
  /\ UNCHANGED <<aclAndRegistryVars, serverVars, now, mutex, cache, contexts, threads,
                 published, history, returns, last_check>>

\* The change is committed: the object is published, and the contexts that
\* have subscribed are to be notified.
Publish ==
  /\ writer.pc = "complete"
  /\ published' = [published EXCEPT ![writer.op.entity] = writer.target]
  /\ history' = Append(history,
       [user |-> objects[published'.user], role |-> objects[published'.role]])
  /\ writer' = [writer EXCEPT
       !.pc = IF contexts = <<>> THEN "idle" ELSE "notify",
       !.pending = DOMAIN contexts]
  /\ UNCHANGED <<aclAndRegistryVars, serverVars, now, mutex, cache, contexts, threads, objects,
                 returns, last_check>>

\* The committing thread runs the handler of one subscribed context.
Notify(c) ==
  /\ writer.pc = "notify"
  /\ c \in writer.pending
  /\ contexts' = [contexts EXCEPT ![c] = OnChange(@, published)]
  /\ writer' = [writer EXCEPT
       !.pc = IF writer.pending = {c} THEN "idle" ELSE "notify",
       !.pending = @ \ {c}]
  /\ UNCHANGED <<aclAndRegistryVars, serverVars, now, mutex, cache, threads, objects,
                 published, history, returns, last_check>>

ResolverNext ==
  \/ Tick
  \/ \E t \in Threads, params \in CallerParams : CreateContext(t, params)
  \/ \E t \in Threads : MakeAndAdd(t)
  \/ \E t \in Threads : Check(t)
  \/ \E op \in ChangeOps : BeginChange(op)
  \/ ChangePartly
  \/ ChangeComplete
  \/ Publish
  \/ \E c \in 1..MaxContexts : Notify(c)

ResolverSpec == Init /\ [][ResolverNext]_vars

(***************************************************************************)
(* A mask and the operators called on it.                                   *)
(***************************************************************************)
\* operator |=, operator &=, operator -= and clear().
MaskApply(op, other) ==
  /\ access_flags' = CASE op = "|=" -> access_flags \cup other
                       [] op = "&=" -> access_flags \cap other
                       [] op = "-=" -> access_flags \ other
                       [] OTHER -> {}
  /\ flags_call' = [op |-> op, other |-> other, result |-> FALSE]
  /\ UNCHANGED <<aclAndRegistryVars, resolverVars, hostsVars, grpcVars>>

\* isEmpty() and explicit operator bool().
MaskTest(op) ==
  /\ access_flags' = access_flags
  /\ flags_call' = [op |-> op, other |-> {},
                    result |-> IF op = "isEmpty" THEN IsEmpty(access_flags)
                               ELSE OperatorBool(access_flags)]
  /\ UNCHANGED <<aclAndRegistryVars, resolverVars, hostsVars, grpcVars>>

MaskSpec ==
  Init /\ [][\/ \E op \in {"|=", "&=", "-=", "clear"}, other \in Masks : MaskApply(op, other)
             \/ \E op \in {"isEmpty", "operator bool"} : MaskTest(op)]_vars

(***************************************************************************)
(* Two AllowedHosts objects and the calls made on them; each is made from  *)
(* the other by the copy constructor, or assigned from it.                 *)
(***************************************************************************)
\* A call on the object returns; the process ends with a SIGSEGV.
HostsCall(op, object, res) ==
  /\ hosts_call.ub # "SIGSEGV"
  /\ hosts_call.n < MaxHostOps
  /\ allowed_hosts' = [allowed_hosts EXCEPT ![object] = res.hosts]
  /\ hosts_call' = [op |-> op, object |-> object, error |-> res.error,
                    result |-> res.result, ub |-> res.ub, n |-> hosts_call.n + 1]
  /\ UNCHANGED <<aclAndRegistryVars, resolverVars, maskVars, grpcVars>>

HostsNext ==
  \E object \in HostObjects :
    LET h == allowed_hosts[object]
    IN \/ \E address \in IPAddresses :
            HostsCall("addIPAddress", object, Returns(AddIPAddress(h, address)))
       \/ \E subnet \in IPSubnets :
            HostsCall("addIPSubnet", object, Returns(AddIPSubnet(h, subnet)))
       \/ \E host \in HostNames : HostsCall("addHost", object, Returns(AddHost(h, host)))
       \/ \E host_regexp \in HostRegexps, past_the_end \in PastTheEnd :
            HostsCall("addHostRegexp", object, AddHostRegexp(h, host_regexp, past_the_end))
       \/ HostsCall("clear", object, Returns(NoHosts))
       \* AllowedHosts(const AllowedHosts & src): a new object, then *this = src.
       \/ \E src \in HostObjects \ {object} :
            HostsCall("copy", object, Returns(Assign(NoHosts, allowed_hosts[src])))
       \/ \E src \in HostObjects :
            HostsCall("operator=", object, Returns(Assign(h, allowed_hosts[src])))
       \* contains(address): containsImpl, and the error it kept is dropped.
       \/ \E address \in IPAddresses, past_the_end \in PastTheEnd :
            HostsCall("contains", object,
                      [ContainsImpl(h, address, past_the_end) EXCEPT !.error = ""])
       \/ \E address \in IPAddresses, past_the_end \in PastTheEnd :
            HostsCall("checkContains", object, CheckContains(h, address, past_the_end))

HostsSpec == Init /\ [][HostsNext]_vars

(***************************************************************************)
(* The gRPC server: the main thread starts, stops and destroys it, the     *)
(* clients connect, gRPC completes the operations issued to it, the queue  *)
(* thread runs Runner::run and each call thread runs Call::run.            *)
(***************************************************************************)
notGrpcVars == <<aclAndRegistryVars, resolverVars, maskVars, hostsVars>>

\* A use of a tag whose callback is gone has ended the process.
Crashed == queue_thread.pc = "crashed"

\* GRPCServer::start: the Runner makes a responder for each call type and
\* starts the queue thread.
ServerStart ==
  /\ grpc_server.pc = "constructed"
  /\ grpc_server' = [grpc_server EXCEPT !.pc = "started"]
  /\ runner' = [runner EXCEPT !.responders_for_new_calls = CallTypes,
                              !.requested = CallTypes]
  /\ queue_thread' = [queue_thread EXCEPT !.pc = "loop"]
  /\ UNCHANGED <<queue, calls, notGrpcVars>>

\* GRPCServer::stop: stopReceivingNewCalls.
ServerStop ==
  /\ ~Crashed
  /\ grpc_server.pc = "started"
  /\ grpc_server' = [grpc_server EXCEPT !.pc = "stopped"]
  /\ runner' = [runner EXCEPT !.should_stop = TRUE, !.responders_for_new_calls = {}]
  /\ UNCHANGED <<queue_thread, queue, calls, notGrpcVars>>

\* ~GRPCServer: runner.reset() joins the queue thread, and when the join
\* has returned, grpc_server->Shutdown() and queue->Shutdown().
ServerDestroy ==
  /\ ~Crashed
  /\ \/ grpc_server.pc = "stopped" /\ grpc_server' = [grpc_server EXCEPT !.pc = "joining"]
     \/ /\ grpc_server.pc = "joining"
        /\ queue_thread.pc = "exited"
        /\ grpc_server' = [grpc_server EXCEPT !.pc = "shutdown"]
  /\ UNCHANGED <<runner, queue_thread, queue, calls, notGrpcVars>>

\* A client connects with a call of the type: the request made by
\* BaseResponder::start for the type completes.
ClientConnects(call_type, ok) ==
  /\ ~Crashed
  /\ grpc_server.pc \in {"started", "stopped", "joining"}
  /\ grpc_server.connections < MaxConnections
  /\ call_type \in runner.requested
  /\ grpc_server' = [grpc_server EXCEPT !.connections = @ + 1]
  /\ runner' = [runner EXCEPT !.requested = @ \ {call_type}]
  /\ queue' = queue \cup {[NoTag EXCEPT !.kind = "new_call", !.call_type = call_type,
                                        !.ok = ok]}
  /\ UNCHANGED <<queue_thread, calls, notGrpcVars>>

\* gRPC completes an operation of a call and puts its tag into the queue.
OperationCompletes(c, operation, ok, cancel) ==
  /\ ~Crashed
  /\ operation \in calls[c].in_flight
  /\ cancel => (ok /\ operation.op \in {"read", "scan"})
  /\ calls' = [calls EXCEPT ![c].in_flight = @ \ {operation}]
  /\ queue' = queue \cup {[NoTag EXCEPT !.kind = "op", !.call = c, !.id = operation.id,
                                        !.op = operation.op, !.ok = ok, !.cancel = cancel]}
  /\ UNCHANGED <<runner, queue_thread, grpc_server, notGrpcVars>>

\* Runner::run, the head of the loop under the mutex.
RunnerLoop ==
  /\ queue_thread.pc = "loop"
  /\ runner' = [runner EXCEPT !.finished_calls = {}]
  /\ queue_thread' = [queue_thread EXCEPT
                        !.pc = IF runner.should_stop /\ runner.current_calls = {}
                               THEN "exited" ELSE "next"]
  /\ UNCHANGED <<queue, calls, grpc_server, notGrpcVars>>

\* queue->Next returns a tag and the callback in the map is called: it
\* starts with callbacks.erase(callback_id). A tag whose callback is gone
\* (its responder was destroyed, or its entry was lost) is a dangling
\* pointer, and calling it does nothing or ends the process.
QueueNext(tag, dangling) ==
  /\ queue_thread.pc = "next"
  /\ tag \in queue
  /\ queue' = queue \ {tag}
  /\ IF tag.kind = "new_call"
     THEN /\ queue_thread' = IF tag.call_type \in runner.responders_for_new_calls
                             THEN [pc |-> "onNewCall", tag |-> tag]
                             ELSE [queue_thread EXCEPT !.pc = dangling]
          /\ calls' = calls
     ELSE IF calls[tag.call].responder /\ tag.id \in calls[tag.call].callbacks
     THEN /\ queue_thread' = [pc |-> "erase", tag |-> tag]
          /\ calls' = [calls EXCEPT ![tag.call].erasing = TRUE,
                                    ![tag.call].raced = calls[tag.call].inserting]
     ELSE /\ queue_thread' = [queue_thread EXCEPT !.pc = dangling]
          /\ calls' = calls
  /\ UNCHANGED <<runner, grpc_server, notGrpcVars>>

\* The erase completes and the callback of the operation is called. Of an
\* erase that overlapped an insertion, the change is made or is lost.
CallbackErased(callbacks) ==
  LET tag == queue_thread.tag
      call == calls[tag.call]
  IN /\ queue_thread.pc = "erase"
     /\ callbacks \in {call.callbacks \ {tag.id}} \cup
                      (IF call.raced THEN {call.callbacks} ELSE {})
     /\ calls' = [calls EXCEPT ![tag.call] =
                    CallbackToCall([call EXCEPT !.callbacks = callbacks,
                                                !.erasing = FALSE,
                                                !.raced = @ /\ call.inserting], tag)]
     /\ queue_thread' = [pc |-> "loop", tag |-> NoTag]
     /\ UNCHANGED <<runner, queue, grpc_server, notGrpcVars>>

\* Runner::onNewCall, under the mutex.
OnNewCall ==
  LET tag == queue_thread.tag
      new_call == CHOOSE c \in CallIds : calls[c].pc = "none"
  IN /\ queue_thread.pc = "onNewCall"
     /\ queue_thread' = [pc |-> "loop", tag |-> NoTag]
     /\ IF runner.should_stop
        THEN UNCHANGED <<runner, calls>>
        ELSE /\ runner' = [runner EXCEPT
                             !.requested = @ \cup {tag.call_type},
                             !.current_calls = IF tag.ok THEN @ \cup {new_call} ELSE @]
             /\ calls' = IF tag.ok
                         THEN [calls EXCEPT ![new_call] =
                                 [NoGrpcCall EXCEPT !.call_type = tag.call_type,
                                                    !.pc = "receiveQuery",
                                                    !.responder = TRUE]]
                         ELSE calls
     /\ UNCHANGED <<queue, grpc_server, notGrpcVars>>

\* The call thread goes on in Call::run.
CallStep(c, choice) ==
  /\ ~Crashed
  /\ calls[c].pc \in {"receiveQuery", "processInput", "generateOutput", "output",
                      "finishQuery", "onException", "close"}
  /\ calls[c].step = "idle"
  /\ (calls[c].pc = "processInput" /\ choice) => calls[c].inputs < MaxExtraInputs
  /\ (calls[c].pc = "output" /\ choice) => calls[c].results < MaxResults
  /\ calls' = [calls EXCEPT ![c] = RunStep(@, choice)]
  /\ UNCHANGED <<runner, queue_thread, queue, grpc_server, notGrpcVars>>

\* The insertion of getCallbackPtr completes and the operation is issued
\* with the pointer as its tag. Of an insertion that overlapped an erase,
\* the change is made or is lost.
GetCallbackPtrReturns(c, callbacks) ==
  LET call == calls[c]
      callback_id == call.next_callback_id
  IN /\ ~Crashed
     /\ call.step = "insert"
     /\ callbacks \in {call.callbacks \cup {callback_id}} \cup
                      (IF call.raced THEN {call.callbacks} ELSE {})
     /\ calls' = [calls EXCEPT ![c] =
                    [call EXCEPT !.callbacks = callbacks,
                                 !.next_callback_id = @ + 1,
                                 !.inserting = FALSE,
                                 !.raced = @ /\ call.erasing,
                                 !.in_flight = @ \cup {[id |-> callback_id, op |-> call.op]},
                                 !.step = IF call.op \in {"read", "finish"}
                                          THEN "wait_check" ELSE "idle"]]
     /\ UNCHANGED <<runner, queue_thread, queue, grpc_server, notGrpcVars>>

\* signal.wait(lock, [&] { return completed; }): the predicate.
WaitCheck(c) ==
  /\ ~Crashed
  /\ calls[c].step = "wait_check"
  /\ calls' = [calls EXCEPT ![c] =
                 IF @.completed THEN AfterWait([@ EXCEPT !.step = "idle"])
                 ELSE [@ EXCEPT !.step = "wait_enter"]]
  /\ UNCHANGED <<runner, queue_thread, queue, grpc_server, notGrpcVars>>

\* The predicate was false: the call thread enters the wait.
WaitEnter(c) ==
  /\ ~Crashed
  /\ calls[c].step = "wait_enter"
  /\ calls' = [calls EXCEPT ![c].step = "waiting"]
  /\ UNCHANGED <<runner, queue_thread, queue, grpc_server, notGrpcVars>>

\* A condition variable may wake without a notification.
SpuriousWakeup(c) ==
  /\ ~Crashed
  /\ calls[c].step = "waiting"
  /\ calls' = [calls EXCEPT ![c].step = "wait_check"]
  /\ UNCHANGED <<runner, queue_thread, queue, grpc_server, notGrpcVars>>

\* Runner::onFinishCall, under the mutex, the last thing the call thread does.
OnFinishCall(c) ==
  /\ ~Crashed
  /\ calls[c].pc = "onFinishCall"
  /\ calls' = [calls EXCEPT ![c].pc = "done"]
  /\ runner' = [runner EXCEPT !.current_calls = @ \ {c}, !.finished_calls = @ \cup {c}]
  /\ UNCHANGED <<queue_thread, queue, grpc_server, notGrpcVars>>

QueueThreadNext ==
  \/ RunnerLoop
  \/ \E tag \in queue, dangling \in {"loop", "crashed"} : QueueNext(tag, dangling)
  \/ \E callbacks \in SUBSET CallbackIds : CallbackErased(callbacks)
  \/ OnNewCall

CallThreadNext(c) ==
  \/ \E choice \in BOOLEAN : CallStep(c, choice)
  \/ \E callbacks \in SUBSET CallbackIds : GetCallbackPtrReturns(c, callbacks)
  \/ WaitCheck(c)
  \/ WaitEnter(c)
  \/ OnFinishCall(c)

GrpcCompletes ==
  \E c \in CallIds, operation \in [id : CallbackIds, op : {"read", "scan", "write", "finish"}],
     ok \in BOOLEAN, cancel \in BOOLEAN : OperationCompletes(c, operation, ok, cancel)

GrpcNext ==
  \/ ServerStart
  \/ ServerStop
  \/ ServerDestroy
  \/ \E call_type \in CallTypes, ok \in BOOLEAN : ClientConnects(call_type, ok)
  \/ GrpcCompletes
  \/ QueueThreadNext
  \/ \E c \in CallIds : CallThreadNext(c)
  \/ \E c \in CallIds : SpuriousWakeup(c)

GrpcSpec == Init /\ [][GrpcNext]_vars

\* The threads run when they can, gRPC completes every operation issued to
\* it and the destructor goes on when its join returns; no client has to
\* connect and no wait has to wake without a notification.
GrpcFairSpec ==
  /\ GrpcSpec
  /\ WF_vars(QueueThreadNext)
  /\ \A c \in CallIds : WF_vars(CallThreadNext(c))
  /\ WF_vars(GrpcCompletes)
  /\ WF_vars(ServerDestroy)

(***************************************************************************)
(* Vocabulary of the properties.                                           *)
(***************************************************************************)
IsPrefix(p, q) == Len(p) <= Len(q) /\ SubSeq(q, 1, Len(p)) = p

\* Whether the tree holds a node of its own for the path.
RECURSIVE HasNode(_, _)
HasNode(node, path) ==
  \/ path = <<>>
  \/ /\ Find(node, Head(path))
     /\ HasNode(node.children[Head(path)], Tail(path))

\* The node of an existing path.
RECURSIVE NodeAt(_, _)
NodeAt(node, path) ==
  IF path = <<>> THEN node ELSE NodeAt(node.children[Head(path)], Tail(path))

\* The explicit grants at a path: those of its node, none without a node.
GrantsAt(tree, path) == IF HasNode(tree, path) THEN NodeAt(tree, path).grants ELSE {}

\* The longest prefix of the path that has a node.
DeepestPrefix(tree, path) ==
  LET k == CHOOSE i \in 0..Len(path) :
             /\ HasNode(tree, SubSeq(path, 1, i))
             /\ \A j \in 0..Len(path) : HasNode(tree, SubSeq(path, 1, j)) => j <= i
  IN SubSeq(path, 1, k)

\* Effective access as the specification words it.
EffectiveAccess(tree, path) == NodeAt(tree, DeepestPrefix(tree, path)).access

SameAccess(t1, t2) == \A q \in AllPaths : GetAccess(t1, q) = GetAccess(t2, q)

\* Every node of the tree satisfies grants \subseteq access.
RECURSIVE GrantsWithinAccess(_)
GrantsWithinAccess(node) ==
  /\ node.grants \subseteq node.access
  /\ \A name \in DOMAIN node.children : GrantsWithinAccess(node.children[name])

Mutated == last.op \in {"grant", "revoke"} /\ last.error = ""

\* The parent of a non-empty path.
Parent(path) == SubSeq(path, 1, Len(path) - 1)

(***************************************************************************)
(* C1. Partial revoke isolation: in a tree as grant(SELECT, [db]) leaves  *)
(* it (SELECT explicitly granted at [db] and visible everywhere below it,  *)
(* no explicit grant of SELECT at [db, t1] or at a column of it), a        *)
(* partial revoke of SELECT at [db, t1] leaves no SELECT in the effective  *)
(* access at [db, t1] and at every column below it, while every other      *)
(* table of db keeps SELECT and SELECT stays explicitly granted at [db].   *)
(***************************************************************************)
C1_PartialRevokeIsolation ==
  (/\ last.op = "revoke" /\ last.partial_revokes
   /\ SELECT \in last.access /\ Len(last.path) = 2
   /\ SELECT \in GrantsAt(pre, Parent(last.path))
   /\ \A q \in AllPaths : IsPrefix(Parent(last.path), q) => SELECT \in GetAccess(pre, q)
   /\ SELECT \notin GrantsAt(pre, last.path)
   /\ \A c \in Columns : SELECT \notin GrantsAt(pre, last.path \o <<c>>))
  => /\ SELECT \notin GetAccess(root, last.path)
     /\ \A c \in Columns : SELECT \notin GetAccess(root, last.path \o <<c>>)
     /\ \A t2 \in Tables \ {last.path[2]} :
          SELECT \in GetAccess(root, <<last.path[1], t2>>)
     /\ SELECT \in GrantsAt(root, Parent(last.path))

\* The scenario itself: grant(SELECT, [d1]) on the empty tree, then the
\* partial revoke at [d1, t1].
C1_Witness ==
  /\ last.op = "revoke" /\ last.partial_revokes /\ last.changed
  /\ last.access = {SELECT} /\ last.path = <<"d1", "t1">>
  /\ pre = NodeGrant(EmptyNode, {SELECT}, <<"d1">>).node
  /\ SELECT \notin GetAccess(root, <<"d1", "t1">>)
  /\ SELECT \in GetAccess(root, <<"d1", "t2">>)

(***************************************************************************)
(* C2. Partial revoke restoration: when SELECT is granted at [db] and      *)
(* partially revoked at [db, t1], a grant of SELECT at [db, t1] puts       *)
(* SELECT back into the effective access at [db, t1] and changes the       *)
(* effective access of no other table of db (nor of their columns).        *)
(***************************************************************************)
C2_PartialRevokeRestoration ==
  (/\ last.op = "grant" /\ last.error = ""
   /\ SELECT \in last.access /\ Len(last.path) = 2
   /\ SELECT \in GrantsAt(pre, Parent(last.path))
   /\ SELECT \notin GetAccess(pre, last.path))
  => /\ SELECT \in GetAccess(root, last.path)
     /\ \A q \in AllPaths :
          (IsPrefix(Parent(last.path), q) /\ Len(q) >= 2 /\ ~IsPrefix(last.path, q))
          => GetAccess(root, q) = GetAccess(pre, q)

C2_Witness ==
  /\ last.op = "grant" /\ last.changed
  /\ last.access = {SELECT} /\ last.path = <<"d1", "t1">>
  /\ SELECT \in GrantsAt(pre, <<"d1">>)
  /\ SELECT \notin GetAccess(pre, <<"d1", "t1">>)
  /\ SELECT \in GetAccess(root, <<"d1", "t1">>)
  /\ SELECT \in GetAccess(root, <<"d1", "t2">>)

(***************************************************************************)
(* C3. In every tree reached by grant, revoke (partial or not) and merge   *)
(* calls, every node satisfies grants \subseteq access.                    *)
(***************************************************************************)
C3_GrantsWithinAccess == GrantsWithinAccess(root)

\* A tree, after a revoke, with a child that keeps what it grants itself
\* and has lost what it only inherited.
C3_Witness ==
  /\ last.op = "revoke" /\ last.changed
  /\ \E q \in AllPaths :
       /\ q # <<>> /\ HasNode(root, q) /\ HasNode(pre, q)
       /\ NodeAt(root, q).grants # {}
       /\ NodeAt(root, q).access # NodeAt(pre, q).access
       /\ IsPrefix(last.path, Parent(q))

(***************************************************************************)
(* C4. Frame of grant and revoke: a call at path p leaves the effective    *)
(* access of every path that is neither p nor below p as it was.           *)
(***************************************************************************)
C4_FrameOfGrantRevoke ==
  Mutated => \A q \in AllPaths :
               ~IsPrefix(last.path, q) => GetAccess(root, q) = GetAccess(pre, q)

\* A call at a table that changes the table and creates the database's node
\* below a root that grants something.
C4_Witness ==
  /\ Mutated /\ last.changed /\ Len(last.path) = 2
  /\ ~HasNode(pre, Parent(last.path))
  /\ pre.access # {}
  /\ GetAccess(root, last.path) # GetAccess(pre, last.path)

(***************************************************************************)
(* C5. getAccess(path) is the access of the deepest node that exists along *)
(* the path: a path without a node has the access of its nearest existing  *)
(* ancestor, and every path of the empty tree has empty access.            *)
(***************************************************************************)
C5_DeepestNodeAccess ==
  /\ \A q \in AllPaths : GetAccess(root, q) = EffectiveAccess(root, q)
  /\ \A q \in AllPaths : GetAccess(EmptyNode, q) = {}

\* A check of a path without a node, answered from a database's or table's
\* node whose access is not the root's.
C5_Witness ==
  /\ last.op = "checkAccess"
  /\ ~HasNode(root, last.path)
  /\ DeepestPrefix(root, last.path) # <<>>
  /\ GetAccess(root, last.path) # {}
  /\ GetAccess(root, last.path) # root.access

(***************************************************************************)
(* C6. checkAccess(requested, path) succeeds iff requested is within the   *)
(* effective access of the path; otherwise it fails with                   *)
(* NOT_ENOUGH_PRIVILEGES and the missing set is requested minus the        *)
(* effective access; the tree is unchanged either way. After a global      *)
(* grant of SELECT, the check of SELECT at [d1, t1] succeeds and the check *)
(* of INSERT there fails with INSERT missing.                              *)
(***************************************************************************)
C6_CheckAccess ==
  last.op = "checkAccess" =>
    /\ root = pre
    /\ (last.error = "") = (last.access \subseteq EffectiveAccess(pre, last.path))
    /\ last.error \in {"", "NOT_ENOUGH_PRIVILEGES"}
    /\ last.denied = last.access \ EffectiveAccess(pre, last.path)
    /\ (pre = NodeGrant(EmptyNode, {SELECT}, <<>>).node /\ last.path = <<"d1", "t1">>)
       => /\ (last.access = {SELECT} => last.error = "")
          /\ (last.access = {INSERT} =>
                last.error = "NOT_ENOUGH_PRIVILEGES" /\ last.denied = {INSERT})

C6_Witness ==
  /\ last.op = "checkAccess"
  /\ pre = NodeGrant(EmptyNode, {SELECT}, <<>>).node
  /\ last.path = <<"d1", "t1">> /\ last.access = {INSERT}
  /\ last.error = "NOT_ENOUGH_PRIVILEGES" /\ last.denied = {INSERT}

(***************************************************************************)
(* C7. Merge commutativity: merging role trees R1 then R2 into a tree T    *)
(* gives the same effective access at every path as merging R2 then R1.    *)
(***************************************************************************)
C7_MergeCommutes ==
  last.op = "merge" =>
    \A r2 \in RoleTrees :
      SameAccess(NodeMerge(root, NoParentAccess, r2),
                 NodeMerge(NodeMerge(pre, NoParentAccess, r2), NoParentAccess, last.other))

\* A merge into a tree with grants of its own, of a role that adds access,
\* with a second role that adds access to the result and to the tree.
C7_Witness ==
  /\ last.op = "merge"
  /\ pre.access # {} /\ pre.has_children
  /\ ~SameAccess(root, pre)
  /\ \E r2 \in RoleTrees :
       /\ ~SameAccess(NodeMerge(root, NoParentAccess, r2), root)
       /\ ~SameAccess(NodeMerge(root, NoParentAccess, r2),
                      NodeMerge(pre, NoParentAccess, r2))

(***************************************************************************)
(* C8. After self.merge(other) the effective access of self at every path  *)
(* is the union of what self had there before and what other has there.    *)
(***************************************************************************)
C8_MergeIsUnion ==
  last.op = "merge" =>
    \A q \in AllPaths :
      GetAccess(root, q) = GetAccess(pre, q) \cup GetAccess(last.other, q)

\* A merge where each tree has a node the other lacks and the role carries
\* a partial revoke.
C8_Witness ==
  /\ last.op = "merge"
  /\ \E q \in AllPaths : HasNode(pre, q) /\ ~HasNode(last.other, q)
                          /\ GetAccess(last.other, q) # {}
  /\ \E q \in AllPaths : HasNode(last.other, q) /\ ~HasNode(pre, q)
  /\ \E q \in AllPaths :
       q # <<>> /\ ~(GetAccess(last.other, Parent(q)) \subseteq GetAccess(last.other, q))

C10_RevokeThenGrant ==
  (/\ last.op = "revoke" /\ ~last.partial_revokes
   /\ last.access \subseteq GrantsAt(pre, last.path))
  => LET again == NodeGrant(root, last.access, last.path).node
     IN /\ GetAccess(again, last.path) = GetAccess(pre, last.path)
        /\ GetAccess(root, last.path) \ last.access = GetAccess(pre, last.path) \ last.access
        /\ GetAccess(again, last.path) \ last.access = GetAccess(pre, last.path) \ last.access

\* A revoke that takes A away from a path that has other bits as well.
C10_Witness ==
  /\ last.op = "revoke" /\ ~last.partial_revokes /\ last.changed
  /\ last.access \subseteq GrantsAt(pre, last.path)
  /\ GetAccess(pre, last.path) \ last.access # {}
  /\ last.access \cap GetAccess(root, last.path) = {}

(***************************************************************************)
(* C11. After any sequence of grant and revoke calls the tree holds no     *)
(* redundant node: no node other than the root has no children, empty      *)
(* grants and the access of its parent.                                    *)
(***************************************************************************)
RECURSIVE NoRedundantNode(_)
NoRedundantNode(node) ==
  \A name \in DOMAIN node.children :
    LET child == node.children[name]
    IN /\ ~(DOMAIN child.children = {} /\ child.grants = {} /\ child.access = node.access)
       /\ NoRedundantNode(child)

\* Whether merge was ever called is not recorded; the claim is about the
\* trees grant and revoke make of a tree that had no redundant node.
C11_NoRedundantNode ==
  (last.op \in {"grant", "revoke"} /\ NoRedundantNode(pre)) => NoRedundantNode(root)

(***************************************************************************)
(* C12. A grant whose bits include one that is not grantable at the level  *)
(* of its target (outside DATABASE_LEVEL for a global or database target,  *)
(* outside TABLE_LEVEL for a table, outside COLUMN_LEVEL for a column)     *)
(* fails with INVALID_GRANT and leaves the tree as it was.                 *)
(***************************************************************************)
C12_InvalidGrant ==
  (/\ last.op = "grant"
   /\ \/ Len(last.path) <= 1 /\ last.access \ DATABASE_LEVEL # {}
      \/ Len(last.path) = 2 /\ last.access \ TABLE_LEVEL # {}
      \/ Len(last.path) = 3 /\ last.access \ COLUMN_LEVEL # {})
  => /\ last.error = "INVALID_GRANT"
     /\ ~last.changed
     /\ root = pre

\* A refused grant at a column of a table that has no node yet, in a tree
\* that is not empty.
C12_Witness ==
  /\ last.op = "grant" /\ last.error = "INVALID_GRANT"
  /\ last.access = {INSERT} /\ Len(last.path) = 3
  /\ pre # EmptyNode /\ ~HasNode(pre, Parent(last.path))
  /\ root = pre

(***************************************************************************)
(* Vocabulary of the properties of the registry.                           *)
(***************************************************************************)
\* The leaf statements of the static table, in order.
LeafIndexes == {i \in 1..Len(Statements) : Statements[i].kind = "leaf"}

\* The keywords and aliases the static table registers, in upper case.
RegisteredKeywords ==
  {"USAGE", "NONE", "NO PRIVILEGES"}
  \cup {ToUpper(Statements[i].keyword) : i \in {j \in 1..Len(Statements) : Statements[j].kind # "push"}}
  \cup UNION {{ToUpper(Statements[i].aliases[j]) : j \in 1..Len(Statements[i].aliases)} :
                i \in 1..Len(Statements)}

\* The keywords of the leaves of the static table.
LeafKeywords == {Statements[i].keyword : i \in LeafIndexes}

\* The leaves below a node (the node itself when it is a leaf); a null child
\* has none.
RECURSIVE LeavesBelow(_)
LeavesBelow(node) ==
  IF node.null THEN {}
  ELSE IF node.children = <<>> THEN {node}
  ELSE UNION {LeavesBelow(node.children[i]) : i \in 1..Len(node.children)}

\* The groups at and below a node.
RECURSIVE GroupsBelow(_)
GroupsBelow(node) ==
  IF node.null \/ node.children = <<>> THEN {}
  ELSE {node} \cup UNION {GroupsBelow(node.children[i]) : i \in 1..Len(node.children)}

\* The nodes the construction holds: in a local variable, in all, as the tree.
HeldNodes(im) ==
  {n \in {im.locals[name] : name \in LocalNames}
         \cup {im.all[i] : i \in 1..Len(im.all)}
         \cup {im.flags_to_keyword_tree} : ~n.null}

RequestDone == request.outcome \notin {"none", "pending"}

\* The bit the static table gives the leaf with this keyword: the number of
\* leaves written before it.
StaticFlag(keyword) ==
  LET i == CHOOSE j \in LeafIndexes : Statements[j].keyword = keyword
  IN Cardinality({j \in LeafIndexes : j < i})

(***************************************************************************)
(* C13. The database-level grantable mask contains SELECT but not CREATE   *)
(* USER; in general the mask of a level contains a leaf's bit only if the  *)
(* leaf's own level is at least as specific as that level. Stated of every *)
(* node the construction holds (what collectAllGrantableOnLevel makes of   *)
(* it) and of every answer of allGrantableOn...Level().                    *)
(***************************************************************************)
C13_GrantableOnLevel ==
  /\ \A node \in HeldNodes(impl) :
       ~HasNullChild(node) =>
         \A leaf \in LeavesBelow(node) : \A i \in GLOBAL_LEVEL..Level_COLUMN :
           leaf.flags \subseteq CollectAllGrantableOnLevel(node)[i] => i <= leaf.level
  /\ (RequestDone /\ request.op = "allGrantableOnLevel") =>
       /\ request.outcome = "ok"
       /\ request.level = Level_DATABASE =>
            /\ StaticFlag("SELECT") \in request.result_flags
            /\ StaticFlag("CREATE USER") \notin request.result_flags

C15_KeywordRoundTrip ==
  (RequestDone /\ request.op = "keywordToFlags" /\ request.keywords[1] \in LeafKeywords) =>
    /\ request.outcome = "ok"
    /\ KeywordToFlags(impl, FlagsToKeywords(impl, request.result_flags)[1])
         = [error |-> "", flags |-> request.result_flags]

\* The keywords of the nodes strictly below a node.
RECURSIVE KeywordsBelow(_)
KeywordsBelow(node) ==
  UNION {{node.children[i].keyword} \cup KeywordsBelow(node.children[i]) :
           i \in {j \in 1..Len(node.children) : ~node.children[j].null}}

(***************************************************************************)
(* C16. For every mask of assigned leaf bits flagsToKeywords returns       *)
(* keywords whose masks are pairwise disjoint and whose union is the mask, *)
(* with a group's keyword in place of its members whenever all the bits    *)
(* of the group are in the mask; for the empty mask it returns "USAGE".    *)
(***************************************************************************)
C16_KeywordsCoverFlags ==
  (RequestDone /\ request.op = "flagsToKeywords") =>
    /\ request.outcome = "ok"
    /\ LET keywords == request.result_keywords
           mask(i) == KeywordToFlags(impl, keywords[i]).flags
       IN IF request.flags = {} THEN keywords = <<"USAGE">>
          ELSE /\ \A i \in 1..Len(keywords) : \A j \in 1..Len(keywords) :
                    i # j => mask(i) \cap mask(j) = {}
               /\ UNION {mask(i) : i \in 1..Len(keywords)} = request.flags
               /\ \A group \in GroupsBelow(impl.flags_to_keyword_tree) :
                    (group.flags # {} /\ group.flags \subseteq request.flags) =>
                      \A i \in 1..Len(keywords) : keywords[i] \notin KeywordsBelow(group)

(***************************************************************************)
(* C17. keywordToFlags returns a mask, the same for every letter-case      *)
(* variant, when the keyword in upper case is a registered keyword or      *)
(* alias, and fails with UNKNOWN_ACCESS_TYPE exactly when it is not;       *)
(* keywordsToFlags fails as a whole when one of its keywords is unknown.   *)
(***************************************************************************)
C17_CaseInsensitiveLookup ==
  /\ (RequestDone /\ request.op = "keywordToFlags") =>
       LET keyword == request.keywords[1]
       IN IF ToUpper(keyword) \in RegisteredKeywords
          THEN /\ request.outcome = "ok"
               /\ request.result_flags = KeywordToFlags(impl, ToUpper(keyword)).flags
          ELSE request.outcome = "UNKNOWN_ACCESS_TYPE"
  /\ (RequestDone /\ request.op = "keywordsToFlags") =>
       IF \A i \in 1..Len(request.keywords) : ToUpper(request.keywords[i]) \in RegisteredKeywords
       THEN request.outcome = "ok"
       ELSE request.outcome = "UNKNOWN_ACCESS_TYPE"

\* A group as the tree is meant to hold it: no null child, the flags of the
\* leaves below it, the highest of their levels.
GroupIsUnionOfLeaves(group) ==
  /\ ~HasNullChild(group)
  /\ LeavesBelow(group) # {}
  /\ group.flags = UNION {leaf.flags : leaf \in LeavesBelow(group)}
  /\ group.level = MaxLevel({leaf.level : leaf \in LeavesBelow(group)})

(***************************************************************************)
(* C18. Every group node of the tree has as its mask the union of the      *)
(* masks of the leaves below it and as its level the maximum of their      *)
(* levels: every group statement of the static table constructs its group, *)
(* and every group the construction holds is of that form.                 *)
(***************************************************************************)
C18_GroupIsUnionOfLeaves ==
  /\ impl.status # "SIGSEGV"
  /\ \A node \in HeldNodes(impl) : \A group \in GroupsBelow(node) : GroupIsUnionOfLeaves(group)

\* How many leaves with this bit are in the top-level nodes collected so far
\* or in the tree.
OccurrencesInTree(im, flag) ==
  LET top == IF im.flags_to_keyword_tree.null THEN im.all
             ELSE <<im.flags_to_keyword_tree>>
      count(i) == Cardinality({leaf \in LeavesBelow(top[i]) : leaf.flags = {flag}})
      sum[i \in 0..Len(top)] == IF i = 0 THEN 0 ELSE sum[i - 1] + count(i)
  IN sum[Len(top)]

\* The last statement executed put a node into all, or made the tree of it.
AfterPush(im) ==
  /\ im.status = "constructing"
  /\ im.pc > 1
  /\ Statements[im.pc - 1].kind \in {"push", "root"}

(***************************************************************************)
(* C19. Every leaf that is assigned a bit occurs exactly once as a leaf of *)
(* the tree rooted at ALL, and the mask of ALL is the set of the assigned  *)
(* bits. Stated each time a top-level node has been added to what ALL is   *)
(* made of: every bit assigned so far is that of exactly one leaf there;   *)
(* and when the construction has ended: ALL is built and its flags are the *)
(* bits assigned.                                                          *)
(***************************************************************************)
C19_EveryLeafOnce ==
  /\ AfterPush(impl) =>
       \A flag \in 0..(impl.next_flag - 1) : OccurrencesInTree(impl, flag) = 1
  /\ impl.status \notin {"not_constructed", "constructing"} =>
       /\ ~impl.flags_to_keyword_tree.null
       /\ impl.flags_to_keyword_tree.flags = 0..(impl.next_flag - 1)

\* The leaves the construction holds, anywhere.
HeldLeaves(im) == UNION {LeavesBelow(node) : node \in HeldNodes(im)}

(***************************************************************************)
(* C20. Construction gives every leaf of the static table a distinct bit   *)
(* in 0..NUM_FLAGS-1 and completes without an out-of-range bit: no two     *)
(* leaves held share a bit, every bit held is below NUM_FLAGS, and no leaf *)
(* statement throws std::out_of_range.                                     *)
(***************************************************************************)
C20_LeavesFitNumFlags ==
  /\ impl.status # "out_of_range"
  /\ impl.next_flag <= NUM_FLAGS
  /\ \A leaf \in HeldLeaves(impl) :
       /\ leaf.flags \subseteq 0..(NUM_FLAGS - 1)
       /\ \A other \in HeldLeaves(impl) : other.flags = leaf.flags => other = leaf

(***************************************************************************)
(* Vocabulary of the claims about the resolver.                            *)
(***************************************************************************)
\* The entities as they were when the k-th state of them was published.
ResultAt(params, k) ==
  CalculateResultAccess(params, history[k].user, history[k].role)

AnswersAt(params, k) == CheckAnswers(ResultAt(params, k), params)

\* The two last calls of createContext came one after the other with equal
\* Params, the second looked the cache up while the entry of the context the
\* first returned was valid, and no change was published in between.
SequentialEqualCalls ==
  /\ returns.n >= 2
  /\ returns.last.params = returns.prev.params
  /\ returns.last.time < returns.prev.valid_until
  /\ returns.last.epoch = returns.prev.epoch

(***************************************************************************)
(* C21. Two sequential createContext calls with equal Params, the second   *)
(* made while the cache entry of the first is within its time-to-live and  *)
(* with no change to the principal published in between, return the same   *)
(* context instance: no second context is constructed for these Params.    *)
(***************************************************************************)
C21_SameInstanceWithinTtl ==
  SequentialEqualCalls =>
    /\ returns.last.ctx = returns.prev.ctx
    /\ Cardinality({c \in DOMAIN contexts :
                      /\ contexts[c].params = returns.last.params
                      /\ contexts[c].requested >= returns.prev.time}) <= 1

\* The second call came later than the first and got the same context.
C21_Witness ==
  /\ SequentialEqualCalls
  /\ returns.last.time > returns.prev.time
  /\ returns.last.ctx = returns.prev.ctx
  /\ returns.last.ctx # 0

C26_UnchangedIsNoOp ==
  (last.op \in {"grant", "revoke"} /\ last.error = "" /\ ~last.changed) => root = pre

C28_GrantReachesSubtree ==
  (last.op = "grant" /\ last.error = "" /\ last.changed) =>
    LET new == last.access \ GrantsAt(pre, last.path)
    IN \A q \in AllPaths :
         IsPrefix(last.path, q) =>
           /\ new \subseteq GetAccess(root, q)
           /\ HasNode(root, q) => new \subseteq NodeAt(root, q).access

\* A grant at a path that had the bits by inheritance, above a node where
\* they had been partially revoked.
C28_Witness ==
  /\ last.op = "grant" /\ last.changed
  /\ last.access \cap GrantsAt(pre, last.path) = {}
  /\ last.access \subseteq GetAccess(pre, last.path)
  /\ \E q \in AllPaths :
       /\ IsPrefix(last.path, q) /\ q # last.path /\ HasNode(pre, q)
       /\ last.access \cap GetAccess(pre, q) = {}
       /\ last.access \subseteq GetAccess(root, q)

(***************************************************************************)
(* C29. After self.merge(other) self holds no redundant node: no node      *)
(* other than the root has no children (no map, or an empty one), empty    *)
(* grants and the access of its parent.                                    *)
(***************************************************************************)
C29_MergeLeavesNoRedundantNode ==
  last.op = "merge" => NoRedundantNode(root)

C31_GrantThenRevokeIsEmpty ==
  (/\ last.op = "revoke" /\ ~last.partial_revokes
   /\ last.path # <<>> /\ last.access # {}
   /\ last.access \subseteq GrantableAt(last.path)
   /\ pre = NodeGrant(EmptyNode, last.access, last.path).node)
  => root = EmptyNode

(***************************************************************************)
(* C32. A revoke call (either mode) adds no bit to the effective access    *)
(* at any path, and a grant call removes no bit from the effective access  *)
(* at any path.                                                            *)
(***************************************************************************)
C32_MutatorsAreMonotone ==
  /\ last.op = "revoke" =>
       \A q \in AllPaths : GetAccess(root, q) \subseteq GetAccess(pre, q)
  /\ last.op = "grant" =>
       \A q \in AllPaths : GetAccess(pre, q) \subseteq GetAccess(root, q)

\* A grant below a node with access made new nodes on its way and added
\* access at its path, with the access above it still there.
C32_Witness ==
  /\ last.op = "grant" /\ last.changed
  /\ Len(last.path) >= 2
  /\ ~HasNode(pre, SubSeq(last.path, 1, 1))
  /\ GetAccess(pre, <<>>) # {}
  /\ GetAccess(root, SubSeq(last.path, 1, 1)) = GetAccess(pre, <<>>)
  /\ GetAccess(root, last.path) # GetAccess(pre, last.path)

(***************************************************************************)
(* C33. The answer of a query depends on the effective access only: a      *)
(* check over a list of columns (the empty list too) has the same answer   *)
(* in the tree and in every tree that a further grant makes of it without  *)
(* changing the effective access at any path, whichever nodes that grant   *)
(* materialises.                                                           *)
(***************************************************************************)
C33_AnswersDependOnAccessOnly ==
  last.op = "checkAccessColumns" =>
    \A access \in AccessTypes, path \in OpPaths :
      LET other == NodeGrant(root, access, path).node
      IN (access \subseteq GrantableAt(path) /\ SameAccess(root, other)) =>
           last.denied = last.access \ GetAccessOfList(other, last.path, last.columns)

(***************************************************************************)
(* Vocabulary of the claims about the enumeration.                         *)
(***************************************************************************)
\* grant(grants, path) for every entry of the enumeration, in its order.
RECURSIVE ReplayGrants(_, _)
ReplayGrants(tree, infos) ==
  IF infos = <<>> THEN tree
  ELSE ReplayGrants(NodeGrant(tree, Head(infos).grants, Head(infos).path).node, Tail(infos))

\* revoke(partial_revokes, path, partial = true) for every entry, in its order.
RECURSIVE ReplayRevokes(_, _)
ReplayRevokes(tree, infos) ==
  IF infos = <<>> THEN tree
  ELSE ReplayRevokes(
         NodeRevoke(tree, NoParentAccess, Head(infos).partial_revokes, Head(infos).path,
                    Len(Head(infos).path) > 0).node,
         Tail(infos))

Replay(infos) == ReplayRevokes(ReplayGrants(EmptyNode, infos), infos)

\* The trees one grant or revoke call makes of the empty tree.
OneCallTrees ==
  {EmptyNode}
  \cup {NodeGrant(EmptyNode, access, path).node :
          access \in AccessTypes, path \in OpPaths}
  \cup {NodeRevoke(EmptyNode, NoParentAccess, access, path, TRUE).node :
          access \in AccessTypes, path \in OpPaths \ {<<>>}}

TargetOf(grant_query, current_database) ==
  <<IF grant_query.use_current_database THEN current_database ELSE grant_query.database,
    grant_query.table>>

(***************************************************************************)
(* C35. Every query SHOW GRANTS makes holds the entries of one (database,  *)
(* table) only, the one its ON target denotes: a grant on the current      *)
(* database is not added to the query of the global grants.                *)
(***************************************************************************)
C35_EntriesKeepTheirTarget ==
  last.op = "showGrants" =>
    \A grant_query \in last.queries :
      grant_query.from = {TargetOf(grant_query, last.current_database)}

(***************************************************************************)
(* C36. BaseResponder is operated from a single thread at any time: an     *)
(* insertion into the callbacks map of a responder by getCallbackPtr on    *)
(* the call thread never overlaps an erase from that map by a completed    *)
(* callback on the queue thread.                                           *)
(***************************************************************************)
C36_OneThreadInCallbacks ==
  \A c \in CallIds : ~(calls[c].inserting /\ calls[c].erasing)

(***************************************************************************)
(* C37. readQueryInfo and sendFinalResult wait until the operation has     *)
(* completed and then continue: whenever the completion callback has set   *)
(* completed and notified while the call thread is in signal.wait, the     *)
(* call thread eventually leaves the wait (unless the process has ended).  *)
(***************************************************************************)
InWait(c) == calls[c].step \in {"wait_check", "wait_enter", "waiting"}

C37_WaitEndsAfterCompletion ==
  \A c \in CallIds : (InWait(c) /\ calls[c].completed) ~> (~InWait(c) \/ Crashed)

(***************************************************************************)
(* C38. Shutdown terminates: once stop() was called and no call is         *)
(* current, the queue thread eventually leaves Runner::run (unless the     *)
(* process has ended), so that the join of ~GRPCServer returns.            *)
(***************************************************************************)
C38_QueueThreadLeavesRun ==
  (runner.should_stop /\ runner.current_calls = {}) ~>
     (queue_thread.pc = "exited" \/ Crashed)

(***************************************************************************)
(* C39. After any sequence of calls on AllowedHosts objects, the compiled  *)
(* list of each object has exactly one slot per entry of host_regexps, in  *)
(* the same order (a slot is null or the compiled form of its entry), and  *)
(* no call has indexed or inserted past the end of the compiled list.      *)
(***************************************************************************)
C39_OneCompiledSlotPerRegexp ==
  /\ hosts_call.ub = ""
  /\ \A object \in HostObjects :
       LET h == allowed_hosts[object]
       IN /\ Len(h.host_regexps_compiled) = Len(h.host_regexps)
          /\ \A i \in 1..Len(h.host_regexps_compiled) :
               h.host_regexps_compiled[i] \in {"", h.host_regexps[i]}

(***************************************************************************)
(* C40. The boolean conversion of a mask is true exactly when the mask     *)
(* holds at least one flag: it is the negation of isEmpty().               *)
(***************************************************************************)
C40_BoolIsNotEmpty ==
  flags_call.op = "operator bool" =>
    /\ flags_call.result = (access_flags # {})
    /\ flags_call.result = ~IsEmpty(access_flags)


====
